---- MODULE Spec2Model ----
(***************************************************************************)
(* Master-data integrity rules of cora-finance-v2: the tRPC routers for    *)
(* currencies, accounts, settings, categories and payees, acting on the    *)
(* PostgreSQL tables of server/db/schema.ts.                               *)
(*                                                                         *)
(* A table is a set of rows (records).  A handler is a sequence of SQL     *)
(* statements; every statement is atomic in the store, a handler is not    *)
(* (the routers open no transaction).  Spec runs every handler to          *)
(* completion before the next one starts; SpecConc lets two callers        *)
(* interleave the statements of one call each.                             *)
(*                                                                         *)
(* The routers fall into groups that share no table: currencies, accounts  *)
(* and settings ("ledger"); categories ("category" for their tree,       *)
(* "category.names" for their names); payees with the categories they      *)
(* point at ("payee").  A behaviour exercises one group,                   *)
(* chosen by scope in Init, so the reachable states are the union of the   *)
(* groups' states, not their product.                                      *)
(***************************************************************************)
EXTENDS Integers, FiniteSets, Sequences, TLC

VARIABLES
  scope,       \* the group of routers this behaviour exercises
  currencies,  \* table currencies: rows [id, code, archived]
  accounts,    \* table accounts: rows [id, name, currencyId, archived]
  settings,    \* table settings: rows [id, defaultCurrencyId]
  categories,  \* table categories: rows [id, name, type, parentCategoryId, archived]
  payees,      \* table payees: rows [id, name, defaultCategoryId, archived]
  last,        \* the most recent completed call: [op, id, ref, status, repeat]
  race,        \* SpecConc: the router whose calls the two callers make ("off" in Spec)
  racing,      \* SpecConc: TRUE once a caller has begun its call
  calls,       \* SpecConc: each caller's call: [op, pc, id, name, ref, status, rid]
  clock,       \* the time: [now, ticking]; it advances in SpecTime only
  calc,        \* SpecDecimal: the last application of a function of lib/decimal.ts
  seeding      \* SpecSeed: the seed script: [pc, next, eur, runs, fresh]

vars ==
  <<scope, currencies, accounts, settings, categories, payees, last, race, racing, calls,
    clock, calc, seeding>>

tables == <<currencies, accounts, settings, categories, payees>>

----------------------------------------------------------------------------
(* Bounds of the model *)

\* rows the categories table may hold (names may repeat, so the alphabet of
\* names does not bound it)
MaxCategories == 2

\* SpecSeed: the times the seed script is run
MaxSeedRuns == 2

\* the latest time of the clock of SpecTime
MaxTime == 2

\* amounts of minor units given to the functions of lib/decimal.ts:
\* -MaxAmount .. MaxAmount
MaxAmount == 30

\* factors, divisors and percentages given to them: f and f / 10 for f in
\* -MaxFactor .. MaxFactor
MaxFactor == 15

\* SpecDecimal: parseCurrency is applied to the strings of at most this many
\* characters
MaxLen == 5

(* Values of optional inputs: a uuid is a positive number, null is Null,   *)
(* a key left out of the input object is Undef.                            *)
Null == 0
Undef == 0 - 1
NoName == "<undefined>"

Procs == {1, 2}

----------------------------------------------------------------------------
(* Input alphabets *)

\* codes and names sent by clients; "eur" is upper-cased by the schema
\* before use.  The timestamps of a row do not depend on its name, so one
\* code and one name per table stand for all while the clock ticks.
CodeInputs == IF clock.ticking THEN {"EUR"} ELSE {"EUR", "eur", "USD"}

AccountNames == IF clock.ticking THEN {"Main"} ELSE {"Main", "Savings"}

PayeeNames == IF clock.ticking THEN {"Lidl"} ELSE {"Lidl", "Ana"}

CategoryTypes == {"Expense", "Income"}

\* ids a client may send: the id of every row of the table and one id that
\* resolves to no row (rows are numbered 1..n, see NewId)
CurrencyIdInputs == 1..(Cardinality(currencies) + 1)

AccountIdInputs == 1..(Cardinality(accounts) + 1)

CategoryIdInputs == 1..(Cardinality(categories) + 1)

PayeeIdInputs == 1..(Cardinality(payees) + 1)

\* category inputs; the payee group looks at a category's id and archived
\* flag only, so one name and one type stand for all there, as they do
\* while the clock ticks
OneCategory == scope = "payee" \/ clock.ticking

\* the checks of the category tree read ids and types, never names, and no
\* check of a name reads a parent: a behaviour exercises the names (without
\* parents) or the tree (with one name)
NamesOnly == scope \in {"category.names", "list.categories"}

CategoryNames ==
  IF NamesOnly THEN {"Groceries", "groceries"} ELSE {"Groceries"}

CategoryTypeInputs ==
  IF OneCategory THEN {"Expense"} ELSE CategoryTypes

CategoryParentInputs ==
  IF OneCategory \/ NamesOnly THEN {Undef} ELSE {Undef} \cup CategoryIdInputs

CategoryParentUpdates ==
  IF OneCategory \/ NamesOnly THEN {Undef} ELSE {Undef, Null} \cup CategoryIdInputs

\* update inputs of categories.update and payees.update: a call that sets
\* two fields passes the same checks as the call that sets the second field
\* alone and writes what the two single-field calls write, so a call sets
\* one field or none
\* the data of categories.update as sent: one key at a time, among them a
\* type, which the schema does not declare
CategoryUpdateInputs ==
  {[name |-> n, parentCategoryId |-> Undef, type |-> NoName]
     : n \in CategoryNames \cup {NoName}}
    \cup {[name |-> NoName, parentCategoryId |-> p, type |-> NoName]
            : p \in CategoryParentUpdates}
    \cup {[name |-> NoName, parentCategoryId |-> Undef, type |-> t]
            : t \in CategoryTypeInputs}

\* exchange rates sent by clients, in units of 10^-7: 1.0 and 2.0, and in
\* the behaviours that exercise the rate -1.0, 0 and 0.0000004 as well
RateInputs ==
  IF clock.ticking THEN {10000000, 20000000}
  ELSE IF scope = "rates" THEN {-10000000, 0, 4, 10000000}
  ELSE {10000000}

\* the input of currencies.update as sent: an exchangeRate or none, or a
\* code, which the schema does not declare
CurrencyUpdateInputs ==
  {[exchangeRate |-> r, code |-> NoName] : r \in RateInputs \cup {Undef}}
    \cup {[exchangeRate |-> Undef, code |-> c] : c \in CodeInputs}

\* the data of accounts.update as sent: a name or none, or a currencyId,
\* which the schema does not declare
AccountUpdateInputs ==
  {[name |-> n, currencyId |-> Undef] : n \in AccountNames \cup {NoName}}
    \cup {[name |-> NoName, currencyId |-> c] : c \in CurrencyIdInputs}

PayeeUpdateInputs ==
  {<<n, Undef>> : n \in PayeeNames \cup {NoName}}
    \cup {<<NoName, c>> : c \in CategoryIdInputs \cup {Undef, Null}}

----------------------------------------------------------------------------
(* Store primitives *)

\* db.select().from(t).where(eq(t.id, id)).limit(1): the rows with that id
SelectById(table, id) == {r \in table : r.id = id}

\* uuid defaultRandom(): a fresh id; no router deletes a row, so the row
\* count numbers the rows
NewId(table) == Cardinality(table) + 1

\* new Date() and the database's now(): the time of the statement, read off
\* one clock that never runs backwards
now == clock.now

\* z.string().toUpperCase() of createCurrencySchema
ToUpperCase(code) == IF code = "eur" THEN "EUR" ELSE code

\* result of a handler: the tables it leaves, the status it returns, the id
\* of the row it returns (Null when it throws)
Outcome(status, id, table) == [status |-> status, id |-> id, table |-> table]

----------------------------------------------------------------------------
(* currenciesRouter *)

\* numeric(18, 6) of a rate sent as a number: rates are counted in units of
\* 10^-7 in the inputs and in units of 10^-6 in the table, and the database
\* rounds the digit it cannot keep half away from zero
StoredRate(rate) == (rate + 5) \div 10

\* INSERT INTO currencies under CONSTRAINT currencies_code_unique, with
\* lastUpdated: new Date() and the defaultNow() of created_at and updated_at
InsertCurrency(curs, code, rate) ==
  IF \E r \in curs : r.code = code
    THEN Outcome("Conflict", Null, curs)
    ELSE Outcome("ok", NewId(curs),
                 curs \cup {[id |-> NewId(curs), code |-> code, archived |-> FALSE,
                             exchangeRate |-> StoredRate(rate), lastUpdated |-> now,
                             createdAt |-> now, updatedAt |-> now]})

SetCurrencyArchived_delete(curs, id, flag) ==
  IF SelectById(curs, id) = {}
    THEN Outcome("NotFound", Null, curs)
    ELSE Outcome("ok", id, {r \in curs : r.id # id})

\* currencies.getById, categories.getById, accounts.getById: the select of
\* the row and the throw when there is none
GetByIdResult(table, id) ==
  IF SelectById(table, id) = {}
    THEN Outcome("NotFound", Null, table)
    ELSE Outcome("ok", id, table)

\* UPDATE currencies SET archived = flag WHERE id = id RETURNING *
SetCurrencyArchived(curs, id, flag) ==
  IF SelectById(curs, id) = {}
    THEN Outcome("NotFound", Null, curs)
    ELSE Outcome("ok", id,
                 {IF r.id = id THEN [r EXCEPT !.archived = flag, !.updatedAt = now] ELSE r
                    : r \in curs})

\* exchangeRate: z.number().positive(), of createCurrencySchema,
\* updateCurrencySchema and updateExchangeRateSchema
Positive(rate) == rate > 0

\* currencies.create: the schema, then the insert
CurrenciesCreateResult(curs, codeInput, rate) ==
  IF ~Positive(rate) THEN Outcome("BadRequest", Null, curs)
  ELSE InsertCurrency(curs, ToUpperCase(codeInput), rate)

\* updateCurrencySchema passing a code of the input on to the handler
UpdateCurrencySchema_keepCode(raw) == raw

\* updateCurrencySchema: z.object strips the keys it does not declare, and
\* it declares no code
UpdateCurrencySchema(raw) == [exchangeRate |-> raw.exchangeRate, code |-> NoName]

\* UPDATE currencies SET ...updateData WHERE id = id RETURNING *, under
\* currencies_code_unique, and the throw when no row comes back; the
\* statement sets the keys updateData holds and $onUpdate sets updated_at
UpdateCurrency(curs, id, data) ==
  IF SelectById(curs, id) = {}
    THEN Outcome("NotFound", Null, curs)
  ELSE IF data.code # NoName /\ \E r \in curs : r.id # id /\ r.code = data.code
    THEN Outcome("Conflict", Null, curs)
  ELSE Outcome("ok", id,
               {IF r.id = id
                  THEN [r EXCEPT !.exchangeRate = IF data.exchangeRate = Undef
                                                    THEN @
                                                    ELSE StoredRate(data.exchangeRate),
                                 !.code = IF data.code = NoName THEN @ ELSE data.code,
                                 !.updatedAt = now]
                  ELSE r
                  : r \in curs})

\* currencies.update: raw is the input as sent, exchangeRate = Undef and
\* code = NoName when it carries none
CurrenciesUpdateResult(curs, id, raw) ==
  IF raw.exchangeRate # Undef /\ ~Positive(raw.exchangeRate)
    THEN Outcome("BadRequest", Null, curs)
    ELSE UpdateCurrency(curs, id, UpdateCurrencySchema(raw))

\* currencies.updateExchangeRate: UPDATE currencies SET exchange_rate = rate,
\* last_updated = new Date() WHERE id = id RETURNING *
CurrenciesUpdateExchangeRateResult(curs, id, rate) ==
  IF ~Positive(rate) THEN Outcome("BadRequest", Null, curs)
  ELSE IF SelectById(curs, id) = {}
    THEN Outcome("NotFound", Null, curs)
    ELSE Outcome("ok", id,
                 {IF r.id = id
                    THEN [r EXCEPT !.exchangeRate = StoredRate(rate),
                                   !.lastUpdated = now, !.updatedAt = now]
                    ELSE r
                    : r \in curs})

\* currencies.archive
CurrenciesArchiveResult(curs, id) == SetCurrencyArchived(curs, id, TRUE)

\* currencies.unarchive
CurrenciesUnarchiveResult(curs, id) == SetCurrencyArchived(curs, id, FALSE)

----------------------------------------------------------------------------
(* accountsRouter *)

\* AccountsCreateCheck without the throw on an archived currency
AccountsCreateCheck_noArchivedThrow(curs, currencyId) ==
  IF SelectById(curs, currencyId) = {} THEN "NotFound" ELSE "ok"

\* accounts.create, first statement and the two throws after it: the
\* currency must exist and must not be archived
AccountsCreateCheck(curs, currencyId) ==
  IF SelectById(curs, currencyId) = {} THEN "NotFound"
  ELSE IF \E c \in SelectById(curs, currencyId) : c.archived THEN "InvalidState"
  ELSE "ok"

\* InsertAccount without the unique constraint on the name
InsertAccount_noUnique(accts, name, currencyId) ==
  Outcome("ok", NewId(accts),
          accts \cup {[id |-> NewId(accts), name |-> name,
                       currencyId |-> currencyId, archived |-> FALSE,
                       createdAt |-> now, updatedAt |-> now]})

\* INSERT INTO accounts under CONSTRAINT accounts_name_unique
InsertAccount(accts, name, currencyId) ==
  IF \E r \in accts : r.name = name
    THEN Outcome("Conflict", Null, accts)
    ELSE Outcome("ok", NewId(accts),
                 accts \cup {[id |-> NewId(accts), name |-> name,
                              currencyId |-> currencyId, archived |-> FALSE,
                       createdAt |-> now, updatedAt |-> now]})

\* accounts.create
AccountsCreateResult(curs, accts, name, currencyId) ==
  IF AccountsCreateCheck(curs, currencyId) # "ok"
    THEN Outcome(AccountsCreateCheck(curs, currencyId), Null, accts)
    ELSE InsertAccount(accts, name, currencyId)

\* updateAccountSchema passing a currencyId of the input on to the handler
UpdateAccountSchema_keepCurrencyId(raw) == raw

\* updateAccountSchema: z.object strips the keys it does not declare, and it
\* declares no currencyId
UpdateAccountSchema(raw) == [name |-> raw.name, currencyId |-> Undef]

\* UPDATE accounts SET ...data WHERE id = id, under accounts_name_unique:
\* the statement sets the keys data holds and $onUpdate sets updated_at
UpdateAccount(accts, id, data) ==
  IF data.name # NoName /\ \E r \in accts : r.id # id /\ r.name = data.name
    THEN Outcome("Conflict", Null, accts)
    ELSE Outcome("ok", id,
                 {IF r.id = id
                    THEN [r EXCEPT !.name = IF data.name = NoName THEN @ ELSE data.name,
                                   !.currencyId = IF data.currencyId = Undef
                                                    THEN @ ELSE data.currencyId,
                                   !.updatedAt = now]
                    ELSE r
                    : r \in accts})

\* accounts.update: raw is the input's data as sent, name = NoName and
\* currencyId = Undef when it carries none
AccountsUpdateResult(accts, id, raw) ==
  IF SelectById(accts, id) = {}
    THEN Outcome("NotFound", Null, accts)
    ELSE UpdateAccount(accts, id, UpdateAccountSchema(raw))

\* SetAccountArchived without the $onUpdate of updated_at
SetAccountArchived_noOnUpdate(accts, id, flag) ==
  IF SelectById(accts, id) = {}
    THEN Outcome("NotFound", Null, accts)
    ELSE Outcome("ok", id,
                 {IF r.id = id THEN [r EXCEPT !.archived = flag] ELSE r : r \in accts})

\* UPDATE accounts SET archived = flag WHERE id = id RETURNING *
SetAccountArchived(accts, id, flag) ==
  IF SelectById(accts, id) = {}
    THEN Outcome("NotFound", Null, accts)
    ELSE Outcome("ok", id,
                 {IF r.id = id THEN [r EXCEPT !.archived = flag, !.updatedAt = now] ELSE r : r \in accts})

\* accounts.archive
AccountsArchiveResult(accts, id) == SetAccountArchived(accts, id, TRUE)

\* accounts.unarchive
AccountsUnarchiveResult(accts, id) == SetAccountArchived(accts, id, FALSE)

----------------------------------------------------------------------------
(* settingsRouter *)

\* select().from(currencies).where(eq(currencies.code, 'EUR')).limit(1)
SelectEur(curs) == {c \in curs : c.code = "EUR"}

\* INSERT INTO settings: the table has a primary key and no other constraint
InsertSettings(setts, defaultCurrencyId) ==
  Outcome("ok", NewId(setts),
          setts \cup {[id |-> NewId(setts), defaultCurrencyId |-> defaultCurrencyId,
                       createdAt |-> now, updatedAt |-> now]})

\* settings.get: the outcomes it may have (select ... limit 1 without ORDER BY
\* returns any row of the table)
SettingsGetResults(setts, curs) ==
  IF setts # {}
    THEN {Outcome("ok", s.id, setts) : s \in setts}
  ELSE IF SelectEur(curs) = {}
    THEN {Outcome("Precondition", Null, setts)}
  ELSE {InsertSettings(setts, c.id) : c \in SelectEur(curs)}

\* settings.update, the currency check; defaultCurrencyId = Undef when the
\* input carries none
SettingsUpdateCheck(curs, defaultCurrencyId) ==
  IF defaultCurrencyId = Undef THEN "ok"
  ELSE IF SelectById(curs, defaultCurrencyId) = {} THEN "NotFound"
  ELSE IF \E c \in SelectById(curs, defaultCurrencyId) : c.archived THEN "InvalidState"
  ELSE "ok"

\* UPDATE settings SET ... WHERE id = id RETURNING *
UpdateSettings(setts, id, defaultCurrencyId) ==
  Outcome("ok", id,
          {IF s.id = id
             THEN [s EXCEPT !.defaultCurrencyId = IF defaultCurrencyId = Undef
                                                    THEN @ ELSE defaultCurrencyId,
                            !.updatedAt = now]
             ELSE s
             : s \in setts})

\* settings.update: the outcomes it may have
SettingsUpdateResults(setts, curs, defaultCurrencyId) ==
  IF setts = {}
    THEN {Outcome("NotFound", Null, setts)}
  ELSE IF SettingsUpdateCheck(curs, defaultCurrencyId) # "ok"
    THEN {Outcome(SettingsUpdateCheck(curs, defaultCurrencyId), Null, setts)}
  ELSE {UpdateSettings(setts, s.id, defaultCurrencyId) : s \in setts}

----------------------------------------------------------------------------
(* categoriesRouter *)

\* the parent checks of categories.create and categories.update, in the
\* order of the throws; ownType is the type the child has or gets
ParentCheck(cats, parentId, ownType) ==
  IF SelectById(cats, parentId) = {} THEN "NotFound"
  ELSE IF \E p \in SelectById(cats, parentId) : p.type # ownType THEN "TypeMismatch"
  ELSE IF \E p \in SelectById(cats, parentId) : p.archived THEN "InvalidState"
  ELSE "ok"

\* categories.create, the checks before the insert; parentId = Undef when
\* the input carries none
CategoriesCreateCheck(cats, type, parentId) ==
  IF parentId = Undef THEN "ok" ELSE ParentCheck(cats, parentId, type)

\* INSERT INTO categories: the table has a primary key and no other constraint
InsertCategory(cats, name, type, parentId) ==
  Outcome("ok", NewId(cats),
          cats \cup {[id |-> NewId(cats), name |-> name, type |-> type,
                      parentCategoryId |-> IF parentId = Undef THEN Null ELSE parentId,
                      archived |-> FALSE,
                       createdAt |-> now, updatedAt |-> now]})

\* categories.create
CategoriesCreateResult(cats, name, type, parentId) ==
  IF CategoriesCreateCheck(cats, type, parentId) # "ok"
    THEN Outcome(CategoriesCreateCheck(cats, type, parentId), Null, cats)
    ELSE InsertCategory(cats, name, type, parentId)

\* CategoriesUpdateCheck without the throw on a category given as its own
\* parent
CategoriesUpdateCheck_noSelfThrow(cats, id, existingType, parentId) ==
  IF parentId = Undef \/ parentId = Null THEN "ok"
  ELSE ParentCheck(cats, parentId, existingType)

\* categories.update, the checks before the update; existingType is the
\* type of the row to update
CategoriesUpdateCheck(cats, id, existingType, parentId) ==
  IF parentId = Undef \/ parentId = Null THEN "ok"
  ELSE IF ParentCheck(cats, parentId, existingType) # "ok"
    THEN ParentCheck(cats, parentId, existingType)
  ELSE IF parentId = id THEN "SelfParent"
  ELSE "ok"

\* updateCategorySchema passing a type of the input on to the handler
UpdateCategorySchema_keepType(raw) == raw

\* updateCategorySchema: z.object strips the keys it does not declare, and
\* it declares no type
UpdateCategorySchema(raw) ==
  [name |-> raw.name, parentCategoryId |-> raw.parentCategoryId, type |-> NoName]

\* UPDATE categories SET ...data WHERE id = id RETURNING *: the statement
\* sets the keys data holds and $onUpdate sets updated_at
UpdateCategory(cats, id, data) ==
  Outcome("ok", id,
          {IF r.id = id
             THEN [r EXCEPT !.name = IF data.name = NoName THEN @ ELSE data.name,
                            !.parentCategoryId = IF data.parentCategoryId = Undef
                                                   THEN @ ELSE data.parentCategoryId,
                            !.type = IF data.type = NoName THEN @ ELSE data.type,
                            !.updatedAt = now]
             ELSE r
             : r \in cats})

\* categories.update: raw is the input's data as sent, name and type =
\* NoName and parentCategoryId = Undef when it carries none
CategoriesUpdateResult(cats, id, raw) ==
  IF SelectById(cats, id) = {}
    THEN Outcome("NotFound", Null, cats)
  ELSE LET existing == CHOOSE e \in SelectById(cats, id) : TRUE
           data == UpdateCategorySchema(raw)
           check == CategoriesUpdateCheck(cats, id, existing.type, data.parentCategoryId)
       IN  IF check # "ok"
             THEN Outcome(check, Null, cats)
             ELSE UpdateCategory(cats, id, data)

\* SetCategoryArchived rejecting a row that already has the flag
SetCategoryArchived_rejectRepeat(cats, id, flag) ==
  IF SelectById(cats, id) = {}
    THEN Outcome("NotFound", Null, cats)
  ELSE IF \E r \in SelectById(cats, id) : r.archived = flag
    THEN Outcome("InvalidState", Null, cats)
  ELSE Outcome("ok", id,
               {IF r.id = id THEN [r EXCEPT !.archived = flag, !.updatedAt = now] ELSE r : r \in cats})

\* UPDATE categories SET archived = flag WHERE id = id RETURNING *
SetCategoryArchived(cats, id, flag) ==
  IF SelectById(cats, id) = {}
    THEN Outcome("NotFound", Null, cats)
    ELSE Outcome("ok", id,
                 {IF r.id = id THEN [r EXCEPT !.archived = flag, !.updatedAt = now] ELSE r : r \in cats})

\* categories.archive
CategoriesArchiveResult(cats, id) == SetCategoryArchived(cats, id, TRUE)

\* categories.unarchive
CategoriesUnarchiveResult(cats, id) == SetCategoryArchived(cats, id, FALSE)

----------------------------------------------------------------------------
(* payeesRouter *)

\* the procedures the router defines
PayeesProcedures == {"create", "list", "getById", "update", "archive", "unarchive"}

\* PayeeCategoryCheck without the throw on an archived category
PayeeCategoryCheck_noArchivedThrow(cats, categoryId) ==
  IF categoryId = Undef \/ categoryId = Null THEN "ok"
  ELSE IF SelectById(cats, categoryId) = {} THEN "NotFound"
  ELSE "ok"

\* the category check of payees.create and payees.update; categoryId is
\* Undef or Null when there is nothing to check
PayeeCategoryCheck(cats, categoryId) ==
  IF categoryId = Undef \/ categoryId = Null THEN "ok"
  ELSE IF SelectById(cats, categoryId) = {} THEN "NotFound"
  ELSE IF \E c \in SelectById(cats, categoryId) : c.archived THEN "InvalidState"
  ELSE "ok"

\* INSERT INTO payees under CONSTRAINT payees_name_unique
InsertPayee(pays, name, categoryId) ==
  IF \E r \in pays : r.name = name
    THEN Outcome("Conflict", Null, pays)
    ELSE Outcome("ok", NewId(pays),
                 pays \cup {[id |-> NewId(pays), name |-> name,
                             defaultCategoryId |-> IF categoryId = Undef THEN Null
                                                                         ELSE categoryId,
                             archived |-> FALSE,
                       createdAt |-> now, updatedAt |-> now]})

\* payees.create
PayeesCreateResult(pays, cats, name, categoryId) ==
  IF PayeeCategoryCheck(cats, categoryId) # "ok"
    THEN Outcome(PayeeCategoryCheck(cats, categoryId), Null, pays)
    ELSE InsertPayee(pays, name, categoryId)

\* UPDATE payees SET ... WHERE id = id RETURNING *, under payees_name_unique
UpdatePayee(pays, id, name, categoryId) ==
  IF name # NoName /\ \E r \in pays : r.id # id /\ r.name = name
    THEN Outcome("Conflict", Null, pays)
    ELSE Outcome("ok", id,
                 {IF r.id = id
                    THEN [r EXCEPT !.name = IF name = NoName THEN @ ELSE name,
                                   !.defaultCategoryId =
                                      IF categoryId = Undef THEN @ ELSE categoryId,
                                   !.updatedAt = now]
                    ELSE r
                    : r \in pays})

\* payees.update
PayeesUpdateResult(pays, cats, id, name, categoryId) ==
  IF SelectById(pays, id) = {}
    THEN Outcome("NotFound", Null, pays)
  ELSE IF PayeeCategoryCheck(cats, categoryId) # "ok"
    THEN Outcome(PayeeCategoryCheck(cats, categoryId), Null, pays)
  ELSE UpdatePayee(pays, id, name, categoryId)

SetPayeeArchived_noThrow(pays, id, flag) ==
  Outcome("ok", id,
          {IF r.id = id THEN [r EXCEPT !.archived = flag, !.updatedAt = now] ELSE r : r \in pays})

\* UPDATE payees SET archived = flag WHERE id = id RETURNING *
SetPayeeArchived(pays, id, flag) ==
  IF SelectById(pays, id) = {}
    THEN Outcome("NotFound", Null, pays)
    ELSE Outcome("ok", id,
                 {IF r.id = id THEN [r EXCEPT !.archived = flag, !.updatedAt = now] ELSE r : r \in pays})

\* payees.archive
PayeesArchiveResult(pays, id) == SetPayeeArchived(pays, id, TRUE)

\* payees.unarchive
PayeesUnarchiveResult(pays, id) == SetPayeeArchived(pays, id, FALSE)

\* payees.getById
PayeesGetByIdResult(pays, id) ==
  IF SelectById(pays, id) = {}
    THEN Outcome("NotFound", Null, pays)
    ELSE Outcome("ok", id, pays)

\* tRPC resolves the path of a call first and rejects a path the router
\* does not define before any handler runs
PayeesResolve(procedure) ==
  IF procedure \in PayeesProcedures THEN "ok" ELSE "NoProcedure"

\* payees.delete: the router defines no such procedure
PayeesDeleteResult(pays, id) == Outcome(PayeesResolve("delete"), Null, pays)

----------------------------------------------------------------------------
(* lib/decimal.ts: the Decimal values it computes with *)

\* Decimal.set({ precision: 20, ... }): significant digits a result keeps
Precision == 20

\* A JavaScript number given as an argument is [m, s]: the number m / 10^s.
Num(m, s) == [m |-> m, s |-> s]

\* A Decimal, and the number toNumber() makes of it, is
\* [kind, neg, int, frac]: for kind "finite" the sign, the digits before the
\* decimal point (none for 0) and the digits after it; the other kinds are
\* "Infinity" (with a sign) and "NaN".
Finite(neg, int, frac) == [kind |-> "finite", neg |-> neg, int |-> int, frac |-> frac]

Infinite(neg) == [kind |-> "Infinity", neg |-> neg, int |-> <<>>, frac |-> <<>>]

NaN == [kind |-> "NaN", neg |-> FALSE, int |-> <<>>, frac |-> <<>>]

Abs(n) == IF n < 0 THEN 0 - n ELSE n

RECURSIVE Pow10(_)
Pow10(k) == IF k = 0 THEN 1 ELSE 10 * Pow10(k - 1)

\* the decimal digits of a natural number, none for 0
RECURSIVE NatToDigits(_)
NatToDigits(n) == IF n = 0 THEN <<>> ELSE Append(NatToDigits(n \div 10), n % 10)

RECURSIVE DigitsToNat(_)
DigitsToNat(ds) ==
  IF ds = <<>> THEN 0 ELSE 10 * DigitsToNat(SubSeq(ds, 1, Len(ds) - 1)) + ds[Len(ds)]

\* digits without the zeros in front / at the end
RECURSIVE StripLeadingZeros(_)
StripLeadingZeros(ds) ==
  IF ds # <<>> /\ ds[1] = 0 THEN StripLeadingZeros(Tail(ds)) ELSE ds

RECURSIVE StripTrailingZeros(_)
StripTrailingZeros(ds) ==
  IF ds # <<>> /\ ds[Len(ds)] = 0
    THEN StripTrailingZeros(SubSeq(ds, 1, Len(ds) - 1))
    ELSE ds

\* one more in the last place of a digit string, with the carries
RECURSIVE Increment(_)
Increment(ds) ==
  IF ds = <<>> THEN <<1>>
  ELSE IF ds[Len(ds)] < 9 THEN [ds EXCEPT ![Len(ds)] = @ + 1]
  ELSE Append(Increment(SubSeq(ds, 1, Len(ds) - 1)), 0)

\* long division: the digits of rem / den after the decimal point, until
\* sig significant digits are written or nothing is left; started tells
\* that a non-zero digit was written before
RECURSIVE FracDigits(_, _, _, _)
FracDigits(rem, den, sig, started) ==
  IF rem = 0 \/ sig <= 0 THEN [digits |-> <<>>, rem |-> rem]
  ELSE LET d == (rem * 10) \div den
           st == started \/ d # 0
           rest == FracDigits((rem * 10) % den, den, IF st THEN sig - 1 ELSE sig, st)
       IN  [digits |-> <<d>> \o rest.digits, rem |-> rest.rem]

\* ROUND_HALF_EVEN: the digits up are one more in the last place when what
\* was cut off (rem / den of a unit in the last place) is more than half, or
\* is half and the last digit is odd
RoundsUp(digits, rem, den) ==
  \/ 2 * rem > den
  \/ 2 * rem = den /\ digits # <<>> /\ digits[Len(digits)] % 2 = 1

\* the Decimal of num / den (num >= 0, den > 0) as divide and times leave it:
\* Precision significant digits, rounded half-even
Quotient(neg, num, den) ==
  LET int == NatToDigits(num \div den)
      q == FracDigits(num % den, den, Precision - Len(int), int # <<>>)
      all == IF RoundsUp(int \o q.digits, q.rem, den)
               THEN Increment(int \o q.digits)
               ELSE int \o q.digits
      n == Len(all) - Len(q.digits)
  IN  Finite(neg, SubSeq(all, 1, n), SubSeq(all, n + 1, Len(all)))

\* the number a finite Decimal with few digits is
NumOf(d) ==
  Num((IF d.neg THEN 0 - 1 ELSE 1) * DigitsToNat(d.int \o d.frac), Len(d.frac))

\* x.times(y) of numbers x and y: the product, rounded to Precision digits
DecimalTimes(x, y) ==
  Quotient((x.m < 0) # (y.m < 0), Abs(x.m) * Abs(y.m), Pow10(x.s + y.s))

\* x.dividedBy(y) of numbers x and y: NaN for 0 / 0, an infinity for x / 0,
\* else the quotient rounded to Precision digits
DecimalDividedBy(x, y) ==
  IF y.m = 0
    THEN IF x.m = 0 THEN NaN ELSE Infinite(x.m < 0)
    ELSE Quotient((x.m < 0) # (y.m < 0), Abs(x.m) * Pow10(y.s), Abs(y.m) * Pow10(x.s))

\* DecimalRound rounding half up
DecimalRound_halfUp(d) ==
  IF d.kind # "finite" \/ d.frac = <<>> THEN d
  ELSE IF d.frac[1] >= 5
    THEN Finite(d.neg, Increment(d.int), <<>>)
    ELSE Finite(d.neg, d.int, <<>>)

\* d.round(): to a whole number in rounding mode ROUND_HALF_EVEN; an
\* infinity and NaN stay what they are
DecimalRound(d) ==
  IF d.kind # "finite" \/ d.frac = <<>> THEN d
  ELSE LET tie == d.frac[1] = 5 /\ StripTrailingZeros(Tail(d.frac)) = <<>>
           odd == d.int # <<>> /\ d.int[Len(d.int)] % 2 = 1
       IN  IF d.frac[1] > 5 \/ (d.frac[1] = 5 /\ ~tie) \/ (tie /\ odd)
             THEN Finite(d.neg, Increment(d.int), <<>>)
             ELSE Finite(d.neg, d.int, <<>>)

\* d.toNumber(): the number of the same value
ToNumber(d) ==
  IF d.kind # "finite" THEN d
  ELSE Finite(d.neg, StripLeadingZeros(d.int), StripTrailingZeros(d.frac))

\* the functions of lib/decimal.ts on numbers
CalculatePercentage(amountCents, percentage) ==
  LET percent == NumOf(DecimalDividedBy(percentage, Num(100, 0)))
  IN  ToNumber(DecimalRound(DecimalTimes(amountCents, percent)))

MultiplyCurrency(amountCents, factor) ==
  ToNumber(DecimalRound(DecimalTimes(amountCents, factor)))

DivideCurrency(amountCents, divisor) ==
  ToNumber(DecimalRound(DecimalDividedBy(amountCents, divisor)))

\* x.plus(y) of whole numbers x and y, digit by digit with the carries (the
\* sum has fewer than Precision digits, nothing is rounded off): the sum of
\* the magnitudes under the common sign, or the difference of the larger and
\* the smaller magnitude under the sign of the larger; +0 when they cancel
DecimalPlus(x, y) ==
  LET n == (IF Len(x.int) > Len(y.int) THEN Len(x.int) ELSE Len(y.int)) + 1
      a == [i \in 1..(n - Len(x.int)) |-> 0] \o x.int
      b == [i \in 1..(n - Len(y.int)) |-> 0] \o y.int
      less == \E i \in 1..n : a[i] < b[i] /\ \A j \in 1..(i - 1) : a[j] = b[j]
      big == IF less THEN b ELSE a
      small == IF less THEN a ELSE b
      carry[i \in 0..n] ==
        IF i = 0 THEN 0 ELSE (a[n + 1 - i] + b[n + 1 - i] + carry[i - 1]) \div 10
      borrow[i \in 0..n] ==
        IF i = 0 THEN 0
        ELSE IF big[n + 1 - i] - small[n + 1 - i] - borrow[i - 1] < 0 THEN 1 ELSE 0
      sum == [i \in 1..n |-> (a[i] + b[i] + carry[n - i]) % 10]
      diff == [i \in 1..n |-> (big[i] - small[i] - borrow[n - i] + 10) % 10]
  IN  IF x.neg = y.neg THEN Finite(x.neg, StripLeadingZeros(sum), <<>>)
      ELSE IF a = b THEN Finite(FALSE, <<>>, <<>>)
      ELSE Finite(IF less THEN y.neg ELSE x.neg, StripLeadingZeros(diff), <<>>)

\* x.minus(y): y changes sign and is added
DecimalMinus(x, y) == DecimalPlus(x, [y EXCEPT !.neg = ~y.neg])

AddCurrency_unsigned(a, b) == ToNumber(DecimalPlus(a, [b EXCEPT !.neg = FALSE]))

AddCurrency(a, b) == ToNumber(DecimalPlus(a, b))

SubtractCurrency(a, b) == ToNumber(DecimalMinus(a, b))

----------------------------------------------------------------------------
(* lib/decimal.ts: strings.  A string is the sequence of its characters;  *)
(* " " stands for every character the regular expression \s matches, the  *)
(* no-break space that Intl.NumberFormat writes among them.               *)

DigitChars == <<"0", "1", "2", "3", "4", "5", "6", "7", "8", "9">>

IsDigit(c) == \E i \in 1..10 : DigitChars[i] = c

DigitChar(d) == DigitChars[d + 1]

DigitValue(c) == (CHOOSE i \in 1..10 : DigitChars[i] = c) - 1

\* the digits that a string of digit characters writes, and back
DigitsOf(str) == [i \in 1..Len(str) |-> DigitValue(str[i])]

StringOf(digits) == [i \in 1..Len(digits) |-> DigitChar(digits[i])]

\* the position of the first c in str, 0 when there is none
IndexOf(str, c) ==
  IF \E i \in 1..Len(str) : str[i] = c
    THEN CHOOSE i \in 1..Len(str) : str[i] = c /\ \A j \in 1..(i - 1) : str[j] # c
    ELSE 0

\* value.replace(/[chars]/g, '')
Remove(str, chars) == SelectSeq(str, LAMBDA c : c \notin chars)

\* value.replace(/c/g, d)
Replace(str, c, d) == [i \in 1..Len(str) |-> IF str[i] = c THEN d ELSE str[i]]

CleanCurrencyString_keepWhitespace(value) ==
  Replace(Remove(Remove(value, {"€", "$", "£", "¥"}), {"."}), ",", ".")

\* parseCurrency, the three replace calls: currency symbols and whitespace
\* go, then every ".", then every "," becomes "."
CleanCurrencyString(value) ==
  Replace(Remove(Remove(value, {"€", "$", "£", "¥", " "}), {"."}), ",", ".")

\* the test of decimal.js for a decimal literal without exponent: digits
\* with at most one "." among them, and at least one digit
IsDecimalLiteral(str) ==
  /\ \A i \in 1..Len(str) : IsDigit(str[i]) \/ str[i] = "."
  /\ \E i \in 1..Len(str) : IsDigit(str[i])
  /\ Len(Remove(str, {"."})) >= Len(str) - 1

\* new Decimal(str) threw
DecimalError == [kind |-> "DecimalError", neg |-> FALSE, int |-> <<>>, frac |-> <<>>]

\* new Decimal(str) of a string: a sign, then a decimal literal, "NaN" or
\* "Infinity"; everything else throws
DecimalParse(str) ==
  LET neg == str # <<>> /\ str[1] = "-"
      v == IF str # <<>> /\ str[1] \in {"-", "+"} THEN Tail(str) ELSE str
      dot == IndexOf(v, ".")
  IN  IF IsDecimalLiteral(v)
        THEN IF dot = 0
               THEN Finite(neg, DigitsOf(v), <<>>)
               ELSE Finite(neg, DigitsOf(SubSeq(v, 1, dot - 1)),
                           DigitsOf(SubSeq(v, dot + 1, Len(v))))
      ELSE IF v = <<"N", "a", "N">> THEN NaN
      ELSE IF v = <<"I", "n", "f", "i", "n", "i", "t", "y">> THEN Infinite(neg)
      ELSE DecimalError

\* d.times(100) and d.dividedBy(100), k = 2 and k = -2: the decimal point
\* moves k places (the digits are fewer than Precision, nothing is rounded
\* off); an infinity and NaN stay what they are
DecimalScale(d, k) ==
  IF d.kind # "finite" THEN d
  ELSE IF k >= 0
    THEN LET frac == d.frac \o [i \in 1..(k - Len(d.frac)) |-> 0]
         IN  Finite(d.neg, d.int \o SubSeq(frac, 1, k), SubSeq(frac, k + 1, Len(frac)))
    ELSE LET int == [i \in 1..(0 - k - Len(d.int)) |-> 0] \o d.int
         IN  Finite(d.neg, SubSeq(int, 1, Len(int) + k),
                    SubSeq(int, Len(int) + k + 1, Len(int)) \o d.frac)

\* parseCurrency
ParseCurrency(value) ==
  LET euros == DecimalParse(CleanCurrencyString(value))
  IN  IF euros = DecimalError THEN DecimalError ELSE ToNumber(DecimalScale(euros, 2))

\* the digits of a whole number in groups of three from the right, with sep
\* between the groups
RECURSIVE Grouped(_, _)
Grouped(str, sep) ==
  IF Len(str) <= 3 THEN str
  ELSE Grouped(SubSeq(str, 1, Len(str) - 3), sep) \o sep
         \o SubSeq(str, Len(str) - 2, Len(str))

\* new Intl.NumberFormat('pt-PT', { style: 'currency', currency: 'EUR' })
\* .format(x) of a number x with at most two decimals, by the locale data of
\* CLDR: a "-" for a number below zero, the whole part (in groups divided by
\* no-break spaces when it has five digits or more), a comma, two
\* decimals, a no-break space and the euro sign
NumberFormat(x) ==
  LET int == IF x.int = <<>> THEN <<"0">> ELSE StringOf(x.int)
      frac == StringOf(x.frac) \o [i \in 1..(2 - Len(x.frac)) |-> "0"]
  IN  (IF x.neg THEN <<"-">> ELSE <<>>)
        \o (IF Len(int) >= 5 THEN Grouped(int, <<" ">>) ELSE int)
        \o <<",">> \o frac \o <<" ", "€">>

\* formatCurrency with the default currency and locale
FormatCurrency(cents) == NumberFormat(ToNumber(DecimalScale(cents, 0 - 2)))

----------------------------------------------------------------------------
(* Calls run to completion, one at a time *)

Scopes == {"ledger", "rates", "category", "category.names", "payee"}

\* while the clock ticks a behaviour exercises one table and the tables its
\* handlers read
TimeScopes == {"ledger.currencies", "ledger.accounts", "ledger.settings", "category", "payee"}

\* the scopes in which the handlers of a router run
CurrencyScopes ==
  {"ledger", "ledger.currencies", "ledger.accounts", "ledger.settings", "seed",
   "list.currencies", "list.accounts", "rates"}

AccountScopes == {"ledger", "ledger.accounts", "list.accounts"}

SettingsScopes == {"ledger", "ledger.settings", "seed"}

CategoryScopes == {"category", "category.names", "payee", "list.categories"}

PayeeScopes == {"payee", "list.payees"}

\* rows the categories table may hold: one while the clock ticks
CategoryCap == IF clock.ticking THEN 1 ELSE MaxCategories

ArchiveOps ==
  {"currencies.archive", "accounts.archive", "categories.archive", "payees.archive"}

UnarchiveOps ==
  {"currencies.unarchive", "accounts.unarchive", "categories.unarchive",
   "payees.unarchive"}

NoCall ==
  [op |-> "none", id |-> Null, ref |-> Null, status |-> "ok", repeat |-> FALSE,
   carried |-> FALSE]

\* the seed script is not running, and has not run
NoSeed == [pc |-> "idle", next |-> 1, eur |-> Null, runs |-> 0, fresh |-> FALSE]

\* no function of lib/decimal.ts applied yet
NoCalc == [fn |-> "none", done |-> FALSE]

Idle == [op |-> "none", pc |-> "idle", id |-> Null, name |-> NoName, ref |-> Null,
         status |-> "ok", rid |-> Null]

\* the call returns: op with target id (the new row's id for a create) and
\* referenced id ref ended with status; repeat tells that the call before it
\* was the same archive or unarchive of the same id; carried tells that the
\* input held a key its schema does not declare (a type, a code, a
\* currencyId) with a value other than the one the target row has
DoneCarrying(op, id, ref, status, carried) ==
  last' = [op |-> op, id |-> id, ref |-> ref, status |-> status,
           repeat |-> /\ op \in ArchiveOps \cup UnarchiveOps
                      /\ last.op = op
                      /\ last.id = id,
           carried |-> carried]

Done(op, id, ref, status) == DoneCarrying(op, id, ref, status, FALSE)

Init ==
  /\ scope \in Scopes
  /\ currencies = {}
  /\ accounts = {}
  /\ settings = {}
  /\ categories = {}
  /\ payees = {}
  /\ last = NoCall
  /\ race = "off"
  /\ racing = FALSE
  /\ calls = [p \in Procs |-> Idle]
  /\ clock = [now |-> 0, ticking |-> FALSE]
  /\ calc = NoCalc
  /\ seeding = NoSeed

CurrenciesCreate(codeInput, rate) ==
  /\ ~racing /\ scope \in CurrencyScopes
  /\ LET o == CurrenciesCreateResult(currencies, codeInput, rate)
     IN  /\ currencies' = o.table
         /\ Done("currencies.create", o.id, Null, o.status)
  /\ UNCHANGED <<scope, accounts, settings, categories, payees, race, racing, calls, clock, calc, seeding>>

CurrenciesUpdate(id, raw) ==
  /\ ~racing /\ scope \in CurrencyScopes
  /\ LET o == CurrenciesUpdateResult(currencies, id, raw)
     IN  /\ currencies' = o.table
         /\ DoneCarrying("currencies.update", id, Null, o.status,
                         /\ raw.code # NoName
                         /\ \E r \in SelectById(currencies, id) : r.code # raw.code)
  /\ UNCHANGED <<scope, accounts, settings, categories, payees, race, racing, calls, clock, calc, seeding>>

CurrenciesUpdateExchangeRate(id, rate) ==
  /\ ~racing /\ scope \in CurrencyScopes
  /\ LET o == CurrenciesUpdateExchangeRateResult(currencies, id, rate)
     IN  /\ currencies' = o.table
         /\ Done("currencies.updateExchangeRate", id, Null, o.status)
  /\ UNCHANGED <<scope, accounts, settings, categories, payees, race, racing, calls, clock, calc, seeding>>

CurrenciesArchive(id) ==
  /\ ~racing /\ scope \in CurrencyScopes
  /\ LET o == CurrenciesArchiveResult(currencies, id)
     IN  /\ currencies' = o.table
         /\ Done("currencies.archive", id, Null, o.status)
  /\ UNCHANGED <<scope, accounts, settings, categories, payees, race, racing, calls, clock, calc, seeding>>

CurrenciesUnarchive(id) ==
  /\ ~racing /\ scope \in CurrencyScopes
  /\ LET o == CurrenciesUnarchiveResult(currencies, id)
     IN  /\ currencies' = o.table
         /\ Done("currencies.unarchive", id, Null, o.status)
  /\ UNCHANGED <<scope, accounts, settings, categories, payees, race, racing, calls, clock, calc, seeding>>

AccountsCreate(name, currencyId) ==
  /\ ~racing /\ scope \in AccountScopes
  /\ LET o == AccountsCreateResult(currencies, accounts, name, currencyId)
     IN  /\ accounts' = o.table
         /\ Done("accounts.create", o.id, currencyId, o.status)
  /\ UNCHANGED <<scope, currencies, settings, categories, payees, race, racing, calls, clock, calc, seeding>>

AccountsUpdate(id, raw) ==
  /\ ~racing /\ scope \in AccountScopes
  /\ LET o == AccountsUpdateResult(accounts, id, raw)
     IN  /\ accounts' = o.table
         /\ DoneCarrying("accounts.update", id, Null, o.status,
                         /\ raw.currencyId # Undef
                         /\ \E r \in SelectById(accounts, id) :
                              r.currencyId # raw.currencyId)
  /\ UNCHANGED <<scope, currencies, settings, categories, payees, race, racing, calls, clock, calc, seeding>>

AccountsArchive(id) ==
  /\ ~racing /\ scope \in AccountScopes
  /\ LET o == AccountsArchiveResult(accounts, id)
     IN  /\ accounts' = o.table
         /\ Done("accounts.archive", id, Null, o.status)
  /\ UNCHANGED <<scope, currencies, settings, categories, payees, race, racing, calls, clock, calc, seeding>>

AccountsUnarchive(id) ==
  /\ ~racing /\ scope \in AccountScopes
  /\ LET o == AccountsUnarchiveResult(accounts, id)
     IN  /\ accounts' = o.table
         /\ Done("accounts.unarchive", id, Null, o.status)
  /\ UNCHANGED <<scope, currencies, settings, categories, payees, race, racing, calls, clock, calc, seeding>>

SettingsGet ==
  /\ ~racing /\ scope \in SettingsScopes
  /\ \E o \in SettingsGetResults(settings, currencies) :
       /\ settings' = o.table
       /\ Done("settings.get", o.id, Null, o.status)
  /\ UNCHANGED <<scope, currencies, accounts, categories, payees, race, racing, calls, clock, calc, seeding>>

SettingsUpdate(defaultCurrencyId) ==
  /\ ~racing /\ scope \in SettingsScopes
  /\ \E o \in SettingsUpdateResults(settings, currencies, defaultCurrencyId) :
       /\ settings' = o.table
       /\ Done("settings.update", o.id, defaultCurrencyId, o.status)
  /\ UNCHANGED <<scope, currencies, accounts, categories, payees, race, racing, calls, clock, calc, seeding>>

CategoriesCreate(name, type, parentId) ==
  /\ ~racing /\ scope \in CategoryScopes
  /\ Cardinality(categories) < CategoryCap
  /\ LET o == CategoriesCreateResult(categories, name, type, parentId)
     IN  /\ categories' = o.table
         /\ Done("categories.create", o.id, Null, o.status)
  /\ UNCHANGED <<scope, currencies, accounts, settings, payees, race, racing, calls, clock, calc, seeding>>

CategoriesUpdate(id, raw) ==
  /\ ~racing /\ scope \in CategoryScopes
  /\ LET o == CategoriesUpdateResult(categories, id, raw)
     IN  /\ categories' = o.table
         /\ DoneCarrying("categories.update", id, Null, o.status,
                         /\ raw.type # NoName
                         /\ \E r \in SelectById(categories, id) : r.type # raw.type)
  /\ UNCHANGED <<scope, currencies, accounts, settings, payees, race, racing, calls, clock, calc, seeding>>

CategoriesArchive(id) ==
  /\ ~racing /\ scope \in CategoryScopes
  /\ LET o == CategoriesArchiveResult(categories, id)
     IN  /\ categories' = o.table
         /\ Done("categories.archive", id, Null, o.status)
  /\ UNCHANGED <<scope, currencies, accounts, settings, payees, race, racing, calls, clock, calc, seeding>>

CategoriesUnarchive(id) ==
  /\ ~racing /\ scope \in CategoryScopes
  /\ LET o == CategoriesUnarchiveResult(categories, id)
     IN  /\ categories' = o.table
         /\ Done("categories.unarchive", id, Null, o.status)
  /\ UNCHANGED <<scope, currencies, accounts, settings, payees, race, racing, calls, clock, calc, seeding>>

PayeesCreate(name, categoryId) ==
  /\ ~racing /\ scope \in PayeeScopes
  /\ LET o == PayeesCreateResult(payees, categories, name, categoryId)
     IN  /\ payees' = o.table
         /\ Done("payees.create", o.id, categoryId, o.status)
  /\ UNCHANGED <<scope, currencies, accounts, settings, categories, race, racing, calls, clock, calc, seeding>>

PayeesUpdate(id, name, categoryId) ==
  /\ ~racing /\ scope \in PayeeScopes
  /\ LET o == PayeesUpdateResult(payees, categories, id, name, categoryId)
     IN  /\ payees' = o.table
         /\ Done("payees.update", id, categoryId, o.status)
  /\ UNCHANGED <<scope, currencies, accounts, settings, categories, race, racing, calls, clock, calc, seeding>>

PayeesArchive(id) ==
  /\ ~racing /\ scope \in PayeeScopes
  /\ LET o == PayeesArchiveResult(payees, id)
     IN  /\ payees' = o.table
         /\ Done("payees.archive", id, Null, o.status)
  /\ UNCHANGED <<scope, currencies, accounts, settings, categories, race, racing, calls, clock, calc, seeding>>

PayeesUnarchive(id) ==
  /\ ~racing /\ scope \in PayeeScopes
  /\ LET o == PayeesUnarchiveResult(payees, id)
     IN  /\ payees' = o.table
         /\ Done("payees.unarchive", id, Null, o.status)
  /\ UNCHANGED <<scope, currencies, accounts, settings, categories, race, racing, calls, clock, calc, seeding>>

PayeesGetById(id) ==
  /\ ~racing /\ scope \in PayeeScopes
  /\ LET o == PayeesGetByIdResult(payees, id)
     IN  /\ payees' = o.table
         /\ Done("payees.getById", id, Null, o.status)
  /\ UNCHANGED <<scope, currencies, accounts, settings, categories, race, racing, calls, clock, calc, seeding>>

\* op, the getById of the router of table, which runs in scopes
GetById(op, table, scopes, id) ==
  /\ ~racing /\ scope \in scopes
  /\ Done(op, id, Null, GetByIdResult(table, id).status)
  /\ UNCHANGED <<scope, tables, race, racing, calls, clock, calc, seeding>>

PayeesDelete(id) ==
  /\ ~racing /\ scope \in PayeeScopes
  /\ LET o == PayeesDeleteResult(payees, id)
     IN  /\ payees' = o.table
         /\ Done("payees.delete", id, Null, o.status)
  /\ UNCHANGED <<scope, currencies, accounts, settings, categories, race, racing, calls, clock, calc, seeding>>

Next ==
  \/ \E c \in CodeInputs, r \in RateInputs : CurrenciesCreate(c, r)
  \/ \E id \in CurrencyIdInputs, raw \in CurrencyUpdateInputs : CurrenciesUpdate(id, raw)
  \/ \E id \in CurrencyIdInputs, r \in RateInputs : CurrenciesUpdateExchangeRate(id, r)
  \/ \E id \in CurrencyIdInputs : CurrenciesArchive(id)
  \/ \E id \in CurrencyIdInputs : CurrenciesUnarchive(id)
  \/ \E n \in AccountNames, c \in CurrencyIdInputs : AccountsCreate(n, c)
  \/ \E id \in AccountIdInputs, raw \in AccountUpdateInputs : AccountsUpdate(id, raw)
  \/ \E id \in AccountIdInputs : AccountsArchive(id)
  \/ \E id \in AccountIdInputs : AccountsUnarchive(id)
  \/ SettingsGet
  \/ \E c \in CurrencyIdInputs \cup {Undef} : SettingsUpdate(c)
  \/ \E n \in CategoryNames, t \in CategoryTypeInputs, p \in CategoryParentInputs :
       CategoriesCreate(n, t, p)
  \/ \E id \in CategoryIdInputs, raw \in CategoryUpdateInputs : CategoriesUpdate(id, raw)
  \/ \E id \in CategoryIdInputs : CategoriesArchive(id)
  \/ \E id \in CategoryIdInputs : CategoriesUnarchive(id)
  \/ \E n \in PayeeNames, c \in CategoryIdInputs \cup {Undef} : PayeesCreate(n, c)
  \/ \E id \in PayeeIdInputs, in \in PayeeUpdateInputs :
       PayeesUpdate(id, in[1], in[2])
  \/ \E id \in PayeeIdInputs : PayeesArchive(id)
  \/ \E id \in PayeeIdInputs : PayeesUnarchive(id)
  \/ \E id \in PayeeIdInputs : PayeesGetById(id)
  \/ \E id \in PayeeIdInputs : PayeesDelete(id)
  \/ \E id \in CurrencyIdInputs :
       GetById("currencies.getById", currencies, CurrencyScopes, id)
  \/ \E id \in AccountIdInputs : GetById("accounts.getById", accounts, AccountScopes, id)
  \/ \E id \in CategoryIdInputs :
       GetById("categories.getById", categories, CategoryScopes, id)

Spec == Init /\ [][Next]_vars

----------------------------------------------------------------------------
(* The handlers run one at a time while time passes (SpecTime) *)

InitTime ==
  /\ scope \in TimeScopes
  /\ currencies = {}
  /\ accounts = {}
  /\ settings = {}
  /\ categories = {}
  /\ payees = {}
  /\ last = NoCall
  /\ race = "off"
  /\ racing = FALSE
  /\ calls = [p \in Procs |-> Idle]
  /\ clock = [now |-> 0, ticking |-> TRUE]
  /\ calc = NoCalc
  /\ seeding = NoSeed

\* time passes between two calls
Tick ==
  /\ clock.ticking
  /\ now < MaxTime
  /\ clock' = [clock EXCEPT !.now = @ + 1]
  /\ UNCHANGED <<scope, tables, last, race, racing, calls, calc, seeding>>

NextTime == Next \/ Tick

SpecTime == InitTime /\ [][NextTime]_vars

----------------------------------------------------------------------------
(* The functions of lib/decimal.ts applied to arguments (SpecDecimal) *)

AmountInputs == {Num(a, 0) : a \in (0 - MaxAmount)..MaxAmount}

FactorInputs == {Num(f, s) : f \in (0 - MaxFactor)..MaxFactor, s \in {0, 1}}

\* fn(a, b), to be applied
Pending(fn, a, b) == [fn |-> fn, a |-> a, b |-> b, done |-> FALSE, out |-> NaN]

\* the characters of the strings parseCurrency is applied to: digits, both
\* separators, a sign, a currency symbol and letters
ParseChars == {"1", "5", ",", ".", "-", "€", "N", "a"}

\* strings of the tests of parseCurrency, and strings with the digits and
\* the whitespace that ParseChars leaves out
ExampleStrings ==
  {<<"1", "2", "3", "4", ",", "5", "6", " ", "€">>,
   <<"1", "2", "3", "4", "5", "6">>,
   <<"-", "5", "0", "0">>,
   <<"0">>,
   <<"1", ",", "0", "0", "5">>,
   <<" ", "€">>}

StringInputs ==
  UNION {[1..n -> ParseChars] : n \in 0..MaxLen} \cup ExampleStrings

\* a whole number of cents as a JavaScript number
Cents(n) == Finite(n < 0, NatToDigits(Abs(n)), <<>>)

\* the amounts formatCurrency is applied to: the small ones, the ones of its
\* tests, and 999999999999
CentsInputs ==
  {Cents(n) : n \in (0 - MaxAmount)..MaxAmount}
    \cup {Cents(0 - 100), Cents(123456), Cents(0 - 50000), Cents(1234567),
          Cents(0 - 123456789),
          Finite(FALSE, <<9, 9, 9, 9, 9, 9, 9, 9, 9, 9, 9, 9>>, <<>>)}

\* the whole number hi * 10^6 + lo (lo < 10^6), below zero if neg
Whole(neg, hi, lo) ==
  Finite(neg /\ hi + lo > 0,
         StripLeadingZeros(NatToDigits(hi)
                             \o SubSeq(NatToDigits(Pow10(6) + lo), 2, 7)),
         <<>>)

\* the amounts addCurrency and subtractCurrency are applied to: the ones of
\* their tests, and amounts about 10^6 and 10^12 where the carries run
WholeInputs ==
  {Whole(neg, hi, lo) : neg \in BOOLEAN, hi \in {0, 1, 999999, 1000000},
                        lo \in {0, 1, 30000, 50000, 100000, 999999}}

\* the applications of SpecDecimal, by the kind of their arguments
DecimalCalls(kind) ==
  CASE kind = "rounded" ->
         {Pending(fn, a, b)
            : fn \in {"calculatePercentage", "multiplyCurrency", "divideCurrency"},
              a \in AmountInputs, b \in FactorInputs}
    [] kind = "string" -> {Pending("parseCurrency", str, <<>>) : str \in StringInputs}
    [] kind = "cents" -> {Pending("formatCurrency", n, <<>>) : n \in CentsInputs}
    [] kind = "whole" ->
         {Pending(fn, a, b) : fn \in {"addCurrency", "subtractCurrency"},
                              a \in WholeInputs, b \in WholeInputs}

InitDecimal ==
  /\ scope = "decimal"
  /\ currencies = {}
  /\ accounts = {}
  /\ settings = {}
  /\ categories = {}
  /\ payees = {}
  /\ last = NoCall
  /\ race = "off"
  /\ racing = FALSE
  /\ calls = [p \in Procs |-> Idle]
  /\ clock = [now |-> 0, ticking |-> FALSE]
  /\ \E kind \in {"rounded", "string", "cents", "whole"} : calc \in DecimalCalls(kind)
  /\ seeding = NoSeed

\* the pending application of fn returns out
Applied(fn, out) ==
  /\ calc.fn = fn
  /\ ~calc.done
  /\ calc' = [calc EXCEPT !.done = TRUE, !.out = out]
  /\ UNCHANGED <<scope, tables, last, race, racing, calls, clock, seeding>>

ApplyCalculatePercentage ==
  Applied("calculatePercentage", CalculatePercentage(calc.a, calc.b))

ApplyMultiplyCurrency == Applied("multiplyCurrency", MultiplyCurrency(calc.a, calc.b))

ApplyDivideCurrency == Applied("divideCurrency", DivideCurrency(calc.a, calc.b))

ApplyParseCurrency == Applied("parseCurrency", ParseCurrency(calc.a))

ApplyFormatCurrency == Applied("formatCurrency", FormatCurrency(calc.a))

\* parseCurrency(formatCurrency(a)): the string formatCurrency returned is
\* handed to parseCurrency
ApplyParseCurrencyOfFormatted ==
  /\ calc.fn = "formatCurrency"
  /\ calc.done
  /\ calc' = [fn |-> "parseCurrency(formatCurrency)", a |-> calc.a, b |-> calc.out,
              done |-> TRUE, out |-> ParseCurrency(calc.out)]
  /\ UNCHANGED <<scope, tables, last, race, racing, calls, clock, seeding>>

ApplyAddCurrency == Applied("addCurrency", AddCurrency(calc.a, calc.b))

ApplySubtractCurrency == Applied("subtractCurrency", SubtractCurrency(calc.a, calc.b))

\* subtractCurrency(addCurrency(a, b), b): the sum addCurrency returned is
\* handed to subtractCurrency
ApplySubtractCurrencyOfSum ==
  /\ calc.fn = "addCurrency"
  /\ calc.done
  /\ calc' = [fn |-> "subtractCurrency(addCurrency)", a |-> calc.a, b |-> calc.b,
              done |-> TRUE, out |-> SubtractCurrency(calc.out, calc.b)]
  /\ UNCHANGED <<scope, tables, last, race, racing, calls, clock, seeding>>

NextDecimal ==
  \/ ApplyCalculatePercentage
  \/ ApplyMultiplyCurrency
  \/ ApplyDivideCurrency
  \/ ApplyParseCurrency
  \/ ApplyFormatCurrency
  \/ ApplyParseCurrencyOfFormatted
  \/ ApplyAddCurrency
  \/ ApplySubtractCurrency
  \/ ApplySubtractCurrencyOfSum

SpecDecimal == InitDecimal /\ [][NextDecimal]_vars

----------------------------------------------------------------------------
(* The list procedures of the routers (SpecList) *)

\* the names and codes of the model in the order of the database's
\* collation, taken to be the byte order
Collation == <<"Ana", "EUR", "Groceries", "Lidl", "Main", "Savings", "USD", "groceries">>

\* select().from(table).where(and(...conditions)).orderBy(table[key]): the
\* rows of the given type (of every type for NoName) that are not archived,
\* or archived too, in every order that ORDER BY allows: ascending by key,
\* rows of equal key in any order
ListResults(table, key, type, includeArchived) ==
  LET rows == {r \in table : /\ type = NoName \/ r.type = type
                             /\ includeArchived \/ ~r.archived}
      n == Cardinality(rows)
      Rank(r) == CHOOSE i \in 1..Len(Collation) : Collation[i] = r[key]
  IN  {seq \in [1..n -> rows] :
         \A i, j \in 1..n : i < j => seq[i] # seq[j] /\ Rank(seq[i]) <= Rank(seq[j])}

\* a list call returns rows
Listed(op, type, includeArchived, rows) ==
  last' = [op |-> op, id |-> Null, ref |-> Null, status |-> "ok", repeat |-> FALSE,
           carried |-> FALSE, type |-> type, includeArchived |-> includeArchived,
           rows |-> rows]

\* the list inputs: a type or none (categories), includeArchived (FALSE also
\* stands for an input without it, the schema's default)
ListTypeInputs == CategoryTypes \cup {NoName}

CurrenciesList(includeArchived) ==
  /\ ~racing /\ scope \in CurrencyScopes
  /\ \E rows \in ListResults(currencies, "code", NoName, includeArchived) :
       Listed("currencies.list", NoName, includeArchived, rows)
  /\ UNCHANGED <<scope, tables, race, racing, calls, clock, calc, seeding>>

\* accounts.list and payees.list without a type: the rows of the model hold
\* no type of account or payee
AccountsList(includeArchived) ==
  /\ ~racing /\ scope \in AccountScopes
  /\ \E rows \in ListResults(accounts, "name", NoName, includeArchived) :
       Listed("accounts.list", NoName, includeArchived, rows)
  /\ UNCHANGED <<scope, tables, race, racing, calls, clock, calc, seeding>>

CategoriesList(type, includeArchived) ==
  /\ ~racing /\ scope \in CategoryScopes
  /\ \E rows \in ListResults(categories, "name", type, includeArchived) :
       Listed("categories.list", type, includeArchived, rows)
  /\ UNCHANGED <<scope, tables, race, racing, calls, clock, calc, seeding>>

PayeesList(includeArchived) ==
  /\ ~racing /\ scope \in PayeeScopes
  /\ \E rows \in ListResults(payees, "name", NoName, includeArchived) :
       Listed("payees.list", NoName, includeArchived, rows)
  /\ UNCHANGED <<scope, tables, race, racing, calls, clock, calc, seeding>>

\* a behaviour of SpecList exercises one router and the tables it reads
ListScopes == {"list.currencies", "list.accounts", "list.categories", "list.payees"}

InitList ==
  /\ scope \in ListScopes
  /\ currencies = {}
  /\ accounts = {}
  /\ settings = {}
  /\ categories = {}
  /\ payees = {}
  /\ last = NoCall
  /\ race = "off"
  /\ racing = FALSE
  /\ calls = [p \in Procs |-> Idle]
  /\ clock = [now |-> 0, ticking |-> FALSE]
  /\ calc = NoCalc
  /\ seeding = NoSeed

NextList ==
  \/ \E c \in CodeInputs, r \in RateInputs : CurrenciesCreate(c, r)
  \/ \E id \in CurrencyIdInputs : CurrenciesArchive(id)
  \/ \E n \in AccountNames, c \in CurrencyIdInputs : AccountsCreate(n, c)
  \/ \E id \in AccountIdInputs : AccountsArchive(id)
  \/ \E n \in CategoryNames, t \in CategoryTypeInputs, p \in CategoryParentInputs :
       CategoriesCreate(n, t, p)
  \/ \E id \in CategoryIdInputs : CategoriesArchive(id)
  \/ \E n \in PayeeNames : PayeesCreate(n, Undef)
  \/ \E id \in PayeeIdInputs : PayeesArchive(id)
  \/ \E a \in BOOLEAN : CurrenciesList(a)
  \/ \E a \in BOOLEAN : AccountsList(a)
  \/ \E t \in ListTypeInputs, a \in BOOLEAN : CategoriesList(t, a)
  \/ \E a \in BOOLEAN : PayeesList(a)

SpecList == InitList /\ [][NextList]_vars

----------------------------------------------------------------------------
(* server/db/seed.ts, run from the command line while no call is served
   (SpecSeed).  Every awaited statement of the script is one step. *)

\* DEFAULT_CATEGORIES: the name and the type of each
DEFAULT_CATEGORIES ==
  <<[name |-> "Groceries", type |-> "Expense"],
    [name |-> "Dining Out", type |-> "Expense"],
    [name |-> "Transportation", type |-> "Expense"],
    [name |-> "Utilities", type |-> "Expense"],
    [name |-> "Rent/Mortgage", type |-> "Expense"],
    [name |-> "Healthcare", type |-> "Expense"],
    [name |-> "Entertainment", type |-> "Expense"],
    [name |-> "Shopping", type |-> "Expense"],
    [name |-> "Insurance", type |-> "Expense"],
    [name |-> "Education", type |-> "Expense"],
    [name |-> "Personal Care", type |-> "Expense"],
    [name |-> "Travel", type |-> "Expense"],
    [name |-> "Subscriptions", type |-> "Expense"],
    [name |-> "Gifts & Donations", type |-> "Expense"],
    [name |-> "Other Expenses", type |-> "Expense"],
    [name |-> "Salary", type |-> "Income"],
    [name |-> "Freelance", type |-> "Income"],
    [name |-> "Investments", type |-> "Income"],
    [name |-> "Gifts Received", type |-> "Income"],
    [name |-> "Other Income", type |-> "Income"]>>

OnConflictDoNothing_never(o, table) == table

\* insert(...).onConflictDoNothing(): the insert, or nothing when it
\* violates a constraint of the table
OnConflictDoNothing(o, table) == IF o.status = "Conflict" THEN table ELSE o.table

InitSeed ==
  /\ scope = "seed"
  /\ currencies = {}
  /\ accounts = {}
  /\ settings = {}
  /\ categories = {}
  /\ payees = {}
  /\ last = NoCall
  /\ race = "off"
  /\ racing = FALSE
  /\ calls = [p \in Procs |-> Idle]
  /\ clock = [now |-> 0, ticking |-> FALSE]
  /\ calc = NoCalc
  /\ seeding = NoSeed

\* the script starts: the insert of the EUR currency with exchangeRate '1.0';
\* fresh tells that the three tables it seeds were empty
SeedInsertCurrency ==
  /\ seeding.pc = "idle"
  /\ seeding.runs < MaxSeedRuns
  /\ LET o == InsertCurrency(currencies, "EUR", 10000000)
     IN  /\ currencies' = OnConflictDoNothing(o, currencies)
         /\ seeding' = [pc |-> IF o.status = "ok" THEN "selectEur" ELSE "selectExisting",
                        next |-> 1, eur |-> Null, runs |-> seeding.runs + 1,
                        fresh |-> currencies = {} /\ categories = {} /\ settings = {}]
  /\ last' = NoCall
  /\ UNCHANGED <<scope, accounts, settings, categories, payees, race, racing, calls, clock, calc>>

\* the select of the existing EUR currency, made when the insert returned
\* no row; its result is only logged
SeedSelectExisting ==
  /\ seeding.pc = "selectExisting"
  /\ seeding' = [seeding EXCEPT !.pc = "selectEur"]
  /\ UNCHANGED <<scope, tables, last, race, racing, calls, clock, calc>>

\* the select of the EUR currency for the settings, and the throw when there
\* is none
SeedSelectEur ==
  /\ seeding.pc = "selectEur"
  /\ IF SelectEur(currencies) = {}
       THEN seeding' = [seeding EXCEPT !.pc = "idle"] /\ Done("seed", Null, Null, "Error")
       ELSE /\ \E c \in SelectEur(currencies) :
                 seeding' = [seeding EXCEPT !.pc = "insertCategory", !.eur = c.id]
            /\ UNCHANGED last
  /\ UNCHANGED <<scope, tables, race, racing, calls, clock, calc>>

\* one turn of the loop over DEFAULT_CATEGORIES: the insert of the next one
SeedInsertCategory ==
  /\ seeding.pc = "insertCategory"
  /\ LET category == DEFAULT_CATEGORIES[seeding.next]
         o == InsertCategory(categories, category.name, category.type, Undef)
     IN  categories' = OnConflictDoNothing(o, categories)
  /\ seeding' = [seeding EXCEPT !.next = @ + 1,
                                !.pc = IF seeding.next = Len(DEFAULT_CATEGORIES)
                                         THEN "insertSettings" ELSE "insertCategory"]
  /\ UNCHANGED <<scope, currencies, accounts, settings, payees, last, race, racing, calls, clock, calc>>

\* the insert of the settings row, after which the script exits
SeedInsertSettings ==
  /\ seeding.pc = "insertSettings"
  /\ LET o == InsertSettings(settings, seeding.eur)
     IN  /\ settings' = OnConflictDoNothing(o, settings)
         /\ Done("seed", o.id, seeding.eur, "ok")
  /\ seeding' = [seeding EXCEPT !.pc = "idle"]
  /\ UNCHANGED <<scope, currencies, accounts, categories, payees, race, racing, calls, clock, calc>>

NextSeed ==
  \/ SeedInsertCurrency
  \/ SeedSelectExisting
  \/ SeedSelectEur
  \/ SeedInsertCategory
  \/ SeedInsertSettings
  \/ seeding.pc = "idle" /\ \E c \in CodeInputs, r \in RateInputs : CurrenciesCreate(c, r)
  \/ seeding.pc = "idle" /\ SettingsGet

SpecSeed == InitSeed /\ [][NextSeed]_vars

----------------------------------------------------------------------------
(* Two callers, one call each, interleaved statement by statement (SpecConc).
   Every await of a handler is one step: the database runs each statement
   atomically (the routers open no transaction), and another caller's
   statements may run between two statements of one handler.  Handlers run
   one at a time while no caller has begun (they build the tables the two
   calls meet). *)

RaceKinds == {"settings", "accounts", "currencies", "payees", "archive"}

\* the table group the calls of a router work on
GroupOf(kind) == IF kind = "payees" THEN "payee" ELSE "ledger"

Call(op, pc, id, name, ref) ==
  [op |-> op, pc |-> pc, id |-> id, name |-> name, ref |-> ref,
   status |-> "ok", rid |-> Null]

\* the calls a caller may make, each at its first statement
RaceCalls ==
  CASE race = "settings" -> {Call("settings.get", "select", Null, NoName, Null)}
    [] race = "accounts" ->
         {Call("accounts.create", "select", Null, n, c)
            : n \in AccountNames, c \in CurrencyIdInputs}
           \cup {Call("accounts.update", "select", id, n, Null)
                   : id \in AccountIdInputs, n \in AccountNames}
    [] race = "currencies" ->
         {Call("currencies.create", "insert", Null, c, Null) : c \in CodeInputs}
    [] race = "archive" ->
         {Call("accounts.create", "select", Null, n, c)
            : n \in AccountNames, c \in CurrencyIdInputs}
           \cup {Call("currencies.archive", "update", id, NoName, Null)
                   : id \in CurrencyIdInputs}
    [] race = "payees" ->
         {Call("payees.create", IF c = Undef THEN "insert" ELSE "selectCategory",
               Null, n, c)
            : n \in PayeeNames, c \in CategoryIdInputs \cup {Undef}}
           \cup {Call("payees.update", "select", id, in[1], in[2])
                   : id \in PayeeIdInputs, in \in PayeeUpdateInputs}
    [] OTHER -> {}

\* caller p is at statement pc of a call of op
At(p, op, pc) == racing /\ calls[p].op = op /\ calls[p].pc = pc

\* caller p moves on to statement pc
Goto(p, pc) == calls' = [calls EXCEPT ![p].pc = pc]

\* caller p's call returns (status "ok", the row's id) or throws
Return(p, status, rid) ==
  calls' = [calls EXCEPT ![p].pc = "done", ![p].status = status, ![p].rid = rid]

InitConc ==
  /\ race \in RaceKinds
  /\ scope = GroupOf(race)
  /\ currencies = {}
  /\ accounts = {}
  /\ settings = {}
  /\ categories = {}
  /\ payees = {}
  /\ last = NoCall
  /\ racing = FALSE
  /\ calls = [p \in Procs |-> Idle]
  /\ clock = [now |-> 0, ticking |-> FALSE]
  /\ calc = NoCalc
  /\ seeding = NoSeed

\* caller p sends its call
Begin(p, call) ==
  /\ race # "off"
  /\ calls[p].pc = "idle"
  /\ call \in RaceCalls
  /\ calls' = [calls EXCEPT ![p] = call]
  /\ racing' = TRUE
  /\ last' = NoCall
  /\ UNCHANGED <<scope, tables, race, clock, calc, seeding>>

\* settings.get: select().from(settings).limit(1) and the return after it
SettingsGetSelect(p) ==
  /\ At(p, "settings.get", "select")
  /\ IF settings # {}
       THEN \E s \in settings : Return(p, "ok", s.id)
       ELSE Goto(p, "selectEur")
  /\ UNCHANGED <<scope, tables, last, race, racing, clock, calc, seeding>>

\* settings.get: the select of the EUR currency and the throw after it
SettingsGetSelectEur(p) ==
  /\ At(p, "settings.get", "selectEur")
  /\ IF SelectEur(currencies) = {}
       THEN Return(p, "Precondition", Null)
       ELSE \E c \in SelectEur(currencies) :
              calls' = [calls EXCEPT ![p].pc = "insert", ![p].ref = c.id]
  /\ UNCHANGED <<scope, tables, last, race, racing, clock, calc, seeding>>

\* settings.get: the insert
SettingsGetInsert(p) ==
  /\ At(p, "settings.get", "insert")
  /\ LET o == InsertSettings(settings, calls[p].ref)
     IN settings' = o.table /\ Return(p, o.status, o.id)
  /\ UNCHANGED <<scope, currencies, accounts, categories, payees, last, race, racing, clock, calc, seeding>>

\* accounts.create: the select of the currency and the two throws after it
AccountsCreateSelect(p) ==
  /\ At(p, "accounts.create", "select")
  /\ LET st == AccountsCreateCheck(currencies, calls[p].ref)
     IN IF st # "ok" THEN Return(p, st, Null) ELSE Goto(p, "insert")
  /\ UNCHANGED <<scope, tables, last, race, racing, clock, calc, seeding>>

\* accounts.create: the insert
AccountsCreateInsert(p) ==
  /\ At(p, "accounts.create", "insert")
  /\ LET o == InsertAccount(accounts, calls[p].name, calls[p].ref)
     IN accounts' = o.table /\ Return(p, o.status, o.id)
  /\ UNCHANGED <<scope, currencies, settings, categories, payees, last, race, racing, clock, calc, seeding>>

\* accounts.update: the select of the account and the throw after it
AccountsUpdateSelect(p) ==
  /\ At(p, "accounts.update", "select")
  /\ IF SelectById(accounts, calls[p].id) = {}
       THEN Return(p, "NotFound", Null)
       ELSE Goto(p, "update")
  /\ UNCHANGED <<scope, tables, last, race, racing, clock, calc, seeding>>

\* accounts.update: the update
AccountsUpdateWrite(p) ==
  /\ At(p, "accounts.update", "update")
  /\ LET o == UpdateAccount(accounts, calls[p].id,
                            UpdateAccountSchema([name |-> calls[p].name,
                                                 currencyId |-> Undef]))
     IN accounts' = o.table /\ Return(p, o.status, o.id)
  /\ UNCHANGED <<scope, currencies, settings, categories, payees, last, race, racing, clock, calc, seeding>>

\* currencies.create: its one statement
CurrenciesCreateInsert(p) ==
  /\ At(p, "currencies.create", "insert")
  /\ \E r \in RateInputs :
       LET o == CurrenciesCreateResult(currencies, calls[p].name, r)
       IN currencies' = o.table /\ Return(p, o.status, o.id)
  /\ UNCHANGED <<scope, accounts, settings, categories, payees, last, race, racing, clock, calc, seeding>>

\* currencies.archive: its one statement, and the throw when it returns no row
CurrenciesArchiveUpdate(p) ==
  /\ At(p, "currencies.archive", "update")
  /\ LET o == SetCurrencyArchived(currencies, calls[p].id, TRUE)
     IN currencies' = o.table /\ Return(p, o.status, o.id)
  /\ UNCHANGED <<scope, accounts, settings, categories, payees, last, race, racing, clock, calc, seeding>>

\* payees.create: the select of the category and the two throws after it
PayeesCreateSelectCategory(p) ==
  /\ At(p, "payees.create", "selectCategory")
  /\ LET st == PayeeCategoryCheck(categories, calls[p].ref)
     IN IF st # "ok" THEN Return(p, st, Null) ELSE Goto(p, "insert")
  /\ UNCHANGED <<scope, tables, last, race, racing, clock, calc, seeding>>

\* payees.create: the insert
PayeesCreateInsert(p) ==
  /\ At(p, "payees.create", "insert")
  /\ LET o == InsertPayee(payees, calls[p].name, calls[p].ref)
     IN payees' = o.table /\ Return(p, o.status, o.id)
  /\ UNCHANGED <<scope, currencies, accounts, settings, categories, last, race, racing, clock, calc, seeding>>

\* payees.update: the select of the payee and the throw after it; the
\* category is selected only when the input carries one
PayeesUpdateSelect(p) ==
  /\ At(p, "payees.update", "select")
  /\ IF SelectById(payees, calls[p].id) = {}
       THEN Return(p, "NotFound", Null)
       ELSE Goto(p, IF calls[p].ref \in {Undef, Null} THEN "update"
                                                      ELSE "selectCategory")
  /\ UNCHANGED <<scope, tables, last, race, racing, clock, calc, seeding>>

\* payees.update: the select of the category and the two throws after it
PayeesUpdateSelectCategory(p) ==
  /\ At(p, "payees.update", "selectCategory")
  /\ LET st == PayeeCategoryCheck(categories, calls[p].ref)
     IN IF st # "ok" THEN Return(p, st, Null) ELSE Goto(p, "update")
  /\ UNCHANGED <<scope, tables, last, race, racing, clock, calc, seeding>>

\* payees.update: the update
PayeesUpdateWrite(p) ==
  /\ At(p, "payees.update", "update")
  /\ LET o == UpdatePayee(payees, calls[p].id, calls[p].name, calls[p].ref)
     IN payees' = o.table /\ Return(p, o.status, o.id)
  /\ UNCHANGED <<scope, currencies, accounts, settings, categories, last, race, racing, clock, calc, seeding>>

NextConc ==
  \/ race # "payees" /\ \E c \in CodeInputs, r \in RateInputs : CurrenciesCreate(c, r)
  \/ race = "settings" /\ \E id \in CurrencyIdInputs : CurrenciesArchive(id)
  \/ race = "accounts" /\
       \E n \in AccountNames, c \in CurrencyIdInputs : AccountsCreate(n, c)
  \/ race = "payees" /\
       \E n \in CategoryNames, t \in CategoryTypeInputs, p \in CategoryParentInputs :
         CategoriesCreate(n, t, p)
  \/ race = "payees" /\ \E id \in CategoryIdInputs : CategoriesArchive(id)
  \/ race = "payees" /\ \E n \in PayeeNames : PayeesCreate(n, Undef)
  \/ \E p \in Procs, call \in RaceCalls : Begin(p, call)
  \/ \E p \in Procs : SettingsGetSelect(p)
  \/ \E p \in Procs : SettingsGetSelectEur(p)
  \/ \E p \in Procs : SettingsGetInsert(p)
  \/ \E p \in Procs : AccountsCreateSelect(p)
  \/ \E p \in Procs : AccountsCreateInsert(p)
  \/ \E p \in Procs : AccountsUpdateSelect(p)
  \/ \E p \in Procs : AccountsUpdateWrite(p)
  \/ \E p \in Procs : CurrenciesCreateInsert(p)
  \/ \E p \in Procs : CurrenciesArchiveUpdate(p)
  \/ \E p \in Procs : PayeesCreateSelectCategory(p)
  \/ \E p \in Procs : PayeesCreateInsert(p)
  \/ \E p \in Procs : PayeesUpdateSelect(p)
  \/ \E p \in Procs : PayeesUpdateSelectCategory(p)
  \/ \E p \in Procs : PayeesUpdateWrite(p)

SpecConc == InitConc /\ [][NextConc]_vars

----------------------------------------------------------------------------
(* Properties of the handlers run one at a time (Spec) *)

\* a non-archived account or the settings row refers to currency id
CurrencyInUse(id) ==
  \/ \E a \in accounts : ~a.archived /\ a.currencyId = id
  \/ \E s \in settings : s.defaultCurrencyId = id

\* String.prototype.toLowerCase on the names of the model
ToLowerCase(name) == IF name = "Groceries" THEN "groceries" ELSE name

\* the rows an archive or unarchive call addresses, in the given tables
TargetRowsIn(curs, accts, cats, pays, op, id) ==
  CASE op \in {"currencies.archive", "currencies.unarchive"} -> SelectById(curs, id)
    [] op \in {"accounts.archive", "accounts.unarchive"} -> SelectById(accts, id)
    [] op \in {"categories.archive", "categories.unarchive"} -> SelectById(cats, id)
    [] op \in {"payees.archive", "payees.unarchive"} -> SelectById(pays, id)
    [] OTHER -> {}

TargetRows(op, id) == TargetRowsIn(currencies, accounts, categories, payees, op, id)

\* C1: currencies.archive(id) fails with an invalid-state error and leaves
\* the currencies table as it was whenever a non-archived account or the
\* settings row refers to id; otherwise, on an existing currency, it succeeds
\* and the currency is archived.
C1_ArchiveRefusesCurrencyInUse ==
  [][(last'.op = "currencies.archive" /\ SelectById(currencies, last'.id) # {}) =>
       IF CurrencyInUse(last'.id)
         THEN last'.status = "InvalidState" /\ currencies' = currencies
         ELSE /\ last'.status = "ok"
              /\ \A c \in SelectById(currencies', last'.id) : c.archived]_vars

\* C2: in every reachable state no archived currency is referred to by a
\* non-archived account or by the settings row.
C2_NoArchivedCurrencyInUse ==
  \A c \in currencies : c.archived => ~CurrencyInUse(c.id)

\* C4: settings.get, called when no settings row exists, succeeds whenever
\* a non-archived currency exists and creates one row whose default currency
\* is not archived (EUR when a non-archived EUR exists); it fails with a
\* precondition error only when no non-archived currency exists.
C4_SettingsGetPicksActiveCurrency ==
  [][(last'.op = "settings.get" /\ settings = {}) =>
       IF \E c \in currencies : ~c.archived
         THEN /\ last'.status = "ok"
              /\ Cardinality(settings') = 1
              /\ \A s \in settings' :
                   /\ \E c \in currencies : c.id = s.defaultCurrencyId /\ ~c.archived
                   /\ \A c \in currencies :
                        (c.code = "EUR" /\ ~c.archived) => s.defaultCurrencyId = c.id
         ELSE last'.status = "Precondition" /\ settings' = {}]_vars

\* C5: in every reachable state no two category rows have the same type
\* and names that are equal ignoring letter case.
C5_CategoryNameTypeUnique ==
  \A a \in categories, b \in categories :
    (a.id # b.id /\ a.type = b.type) => ToLowerCase(a.name) # ToLowerCase(b.name)

\* C7: accounts.create with a currencyId that resolves to no currency fails
\* with a not-found error, with the id of an archived currency it fails with
\* a state error, and in both cases the accounts table is left as it was; a
\* row is inserted only for a currency that exists and is not archived.
C7_AccountsCreateGuardsCurrency ==
  [][last'.op = "accounts.create" =>
       /\ SelectById(currencies, last'.ref) = {} =>
            (last'.status = "NotFound" /\ accounts' = accounts)
       /\ (\E c \in SelectById(currencies, last'.ref) : c.archived) =>
            (last'.status = "InvalidState" /\ accounts' = accounts)
       /\ accounts' # accounts =>
            /\ \E c \in SelectById(currencies, last'.ref) : ~c.archived
            /\ \E a \in accounts' \ accounts :
                 /\ accounts' = accounts \cup {a}
                 /\ a.currencyId = last'.ref
                 /\ ~a.archived]_vars

\* C7 witness: accounts.create was refused because its currency is archived.
C7_Witness ==
  /\ last.op = "accounts.create"
  /\ last.status = "InvalidState"
  /\ \E c \in SelectById(currencies, last.ref) : c.archived

\* C8: when payees.create or payees.update is given a non-null
\* defaultCategoryId that does not resolve to a non-archived category the call
\* fails and the payees table is left as it was; every defaultCategoryId a
\* step writes refers to a category that exists and is not archived in that
\* step; categories.archive leaves the payees table as it was.
C8_PayeeCategoryValidAtAssignment ==
  [][/\ (last'.op \in {"payees.create", "payees.update"} /\ last'.ref \notin {Undef, Null}) =>
          \/ \E c \in SelectById(categories, last'.ref) : ~c.archived
          \/ last'.status \in {"NotFound", "InvalidState"} /\ payees' = payees
     /\ \A p \in payees' :
          (/\ p.defaultCategoryId # Null
           /\ \A q \in SelectById(payees, p.id) : q.defaultCategoryId # p.defaultCategoryId) =>
             \E c \in SelectById(categories, p.defaultCategoryId) : ~c.archived
     /\ last'.op = "categories.archive" => payees' = payees]_vars

\* C8 witness: a category was archived after a payee took it as default, and
\* the payee still refers to it.
C8_Witness ==
  /\ last.op = "categories.archive"
  /\ last.status = "ok"
  /\ \E p \in payees : p.defaultCategoryId = last.id
  /\ \E c \in SelectById(categories, last.id) : c.archived

\* C9: payees.delete(id) on an existing payee (no ledger exists, so it has
\* zero historical references) succeeds and removes the row, after which
\* getById(id) finds nothing.
C9_DeleteRemovesUnreferencedPayee ==
  [][(last'.op = "payees.delete" /\ SelectById(payees, last'.id) # {}) =>
       /\ last'.status = "ok"
       /\ PayeesGetByIdResult(payees', last'.id).status = "NotFound"]_vars

----------------------------------------------------------------------------
(* Properties of two interleaved calls (SpecConc) *)

\* both callers' calls were calls of op and have returned
BothDone(op) == \A p \in Procs : calls[p].op = op /\ calls[p].pc = "done"

\* the unique key a create call asks for: the account's or payee's name, the
\* currency's code as the schema transforms it
CreateKey(call) ==
  IF call.op = "currencies.create" THEN ToUpperCase(call.name) ELSE call.name

CreateOps == {"accounts.create", "payees.create", "currencies.create"}

\* C3: when no settings row exists (and the EUR currency does) and two
\* callers run settings.get with their statements interleaved in any order,
\* exactly one settings row exists after both have returned, and both were
\* returned a row with the same id.
C3_ConcurrentGetMakesOneRow ==
  (BothDone("settings.get") /\ SelectEur(currencies) # {}) =>
    /\ Cardinality(settings) = 1
    /\ \A p \in Procs : calls[p].status = "ok"
    /\ \A p, q \in Procs : calls[p].rid = calls[q].rid

\* C6: under every interleaving of create and update calls no two accounts
\* share a name, no two payees share a name and no two currencies share a
\* code; of two concurrent creates of the same name or code at most one
\* succeeds, and a call that fails on the unique constraint writes no row.
C6_NamesAndCodesUnique ==
  /\ [](/\ \A a, b \in accounts : a.name = b.name => a.id = b.id
        /\ \A a, b \in payees : a.name = b.name => a.id = b.id
        /\ \A a, b \in currencies : a.code = b.code => a.id = b.id
        /\ \A p, q \in Procs :
             (/\ p # q
              /\ calls[p].op \in CreateOps /\ calls[p].pc = "done"
              /\ calls[q].op = calls[p].op /\ calls[q].pc = "done"
              /\ CreateKey(calls[p]) = CreateKey(calls[q])) =>
               ~(calls[p].status = "ok" /\ calls[q].status = "ok"))
  /\ [][/\ \A p \in Procs :
             (calls[p].pc # "done" /\ calls'[p].pc = "done"
                /\ calls'[p].status = "Conflict") => tables' = tables
        /\ (last' # last /\ last'.status = "Conflict") => tables' = tables]_vars

\* C6 witness: two callers created an account of the same name concurrently;
\* one was given the new row, the other failed on the unique constraint.
C6_Witness ==
  /\ BothDone("accounts.create")
  /\ calls[1].name = calls[2].name
  /\ calls[1].status = "ok" /\ calls[1].rid # Null
  /\ calls[2].status = "Conflict"
  /\ Cardinality({a \in accounts : a.name = calls[1].name}) = 1

----------------------------------------------------------------------------
(* Properties of the fields a row keeps for life (Spec) *)

----------------------------------------------------------------------------
(* Properties of the category tree (Spec) *)

\* C12: in every state every category with a non-null parentCategoryId
\* refers to a category that exists, has the same type as it and is not the
\* category itself.
C12_ParentExistsSameTypeNotSelf ==
  \A c \in categories :
    c.parentCategoryId # Null =>
      \E p \in SelectById(categories, c.parentCategoryId) :
        p.type = c.type /\ p.id # c.id

\* C12 witness: categories.update gave a category created without a parent
\* another category as its parent.
C12_Witness ==
  /\ last.op = "categories.update"
  /\ last.status = "ok"
  /\ \E c \in SelectById(categories, last.id) :
       c.parentCategoryId \notin {Null, c.id}

\* C13: after every mutation every category with a non-null parentCategoryId
\* refers to a category whose archived flag is false.
C13_ParentNotArchived ==
  \A c \in categories :
    c.parentCategoryId # Null =>
      \A p \in SelectById(categories, c.parentCategoryId) : ~p.archived

----------------------------------------------------------------------------
(* Properties of the timestamps (SpecTime) *)

\* C14: every step that changes the exchangeRate of a currency, a
\* currencies.update with an exchangeRate as well as a
\* currencies.updateExchangeRate, sets the currency's lastUpdated to the time
\* of the step, so that no rate is newer than its lastUpdated.
C14_RateChangeRefreshesLastUpdated ==
  [][\A r \in currencies, t \in currencies' :
       (t.id = r.id /\ t.exchangeRate # r.exchangeRate) => t.lastUpdated = now]_vars

\* the calls that write to an existing row of a table
CurrencyMutations ==
  {"currencies.update", "currencies.updateExchangeRate", "currencies.archive",
   "currencies.unarchive"}

AccountMutations == {"accounts.update", "accounts.archive", "accounts.unarchive"}

CategoryMutations == {"categories.update", "categories.archive", "categories.unarchive"}

PayeeMutations == {"payees.update", "payees.archive", "payees.unarchive"}

\* what a step from table to table2 does to the timestamps: a row keeps its
\* createdAt, a new row has both timestamps at the time of the step, a row
\* the step changed has updatedAt at the time of the step, and updatedAt
\* neither decreases nor precedes createdAt
StampsKept(table, table2) ==
  /\ \A r \in table, t \in table2 :
       t.id = r.id =>
         /\ t.createdAt = r.createdAt
         /\ t.updatedAt >= r.updatedAt
         /\ t # r => t.updatedAt = now
  /\ \A t \in table2 :
       /\ SelectById(table, t.id) = {} => (t.createdAt = now /\ t.updatedAt = now)
       /\ t.updatedAt >= t.createdAt

\* the row a successful call of ops wrote to has updatedAt at the time of
\* the step, whether or not the call changed anything else in it
StampsSet(ops, table2) ==
  (last' # last /\ last'.op \in ops /\ last'.status = "ok") =>
    \A t \in SelectById(table2, last'.id) : t.updatedAt = now

----------------------------------------------------------------------------
(* Properties of lib/decimal.ts (SpecDecimal) *)

\* fn was applied: calc holds its arguments and what it returned
Is(fn) == calc.fn = fn /\ calc.done

\* the whole number nearest to num / den (den > 0), the even one of the two
\* when num / den lies halfway between them
HalfEven(num, den) ==
  LET q == num \div den
      r == num % den
  IN  IF 2 * r > den \/ (2 * r = den /\ q % 2 = 1) THEN q + 1 ELSE q

\* the whole number a returned number is (-0 is 0)
IntegerOf(out) == (IF out.neg THEN 0 - 1 ELSE 1) * DigitsToNat(out.int)

\* out is the whole number n
IsInteger(out, n) == out.kind = "finite" /\ out.frac = <<>> /\ IntegerOf(out) = n

\* C16: divideCurrency(amount, 0) fails with a division-by-zero error for
\* every amount, 0 included: it returns no value.
C16_DivideByZeroFails ==
  (Is("divideCurrency") /\ calc.b.m = 0) => calc.out.kind = "DivisionByZero"

\* C17: for every whole amount and every non-zero divisor divideCurrency
\* returns the whole number nearest to amount / divisor, the even neighbour
\* when the quotient lies halfway (below zero too); multiplyCurrency and
\* calculatePercentage return amount * factor and amount * percent / 100
\* rounded in the same way.
C17_RoundsHalfEven ==
  /\ (Is("divideCurrency") /\ calc.b.m # 0) =>
       IsInteger(calc.out,
                 IF calc.b.m > 0
                   THEN HalfEven(calc.a.m * Pow10(calc.b.s), calc.b.m)
                   ELSE HalfEven((0 - calc.a.m) * Pow10(calc.b.s), 0 - calc.b.m))
  /\ Is("multiplyCurrency") =>
       IsInteger(calc.out, HalfEven(calc.a.m * calc.b.m, Pow10(calc.b.s)))
  /\ Is("calculatePercentage") =>
       IsInteger(calc.out, HalfEven(calc.a.m * calc.b.m, 100 * Pow10(calc.b.s)))

\* C17 witness: a quotient below zero that lies halfway between two whole
\* numbers, -2.5, came out as the even one, -2.
C17_Witness ==
  /\ Is("divideCurrency")
  /\ calc.a = Num(0 - 5, 0)
  /\ calc.b = Num(2, 0)
  /\ IsInteger(calc.out, 0 - 2)

\* str without the sign before it
Unsigned(str) == IF str # <<>> /\ str[1] = "-" THEN Tail(str) ELSE str

\* str without the euro sign after it, and the space before that
Bare(str) ==
  LET n == Len(str)
  IN  IF n >= 2 /\ SubSeq(str, n - 1, n) = <<" ", "€">> THEN SubSeq(str, 1, n - 2)
      ELSE IF n >= 1 /\ str[n] = "€" THEN SubSeq(str, 1, n - 1)
      ELSE str

\* a display string: an optional "-", digits, optionally a decimal comma
\* and digits after it, optionally a euro sign at the end
IsDisplayString(str) ==
  LET v == Bare(Unsigned(str))
  IN  /\ v # <<>>
      /\ \A i \in 1..Len(v) : IsDigit(v[i]) \/ v[i] = ","
      /\ IsDigit(v[1]) /\ IsDigit(v[Len(v)])
      /\ Len(Remove(v, {","})) >= Len(v) - 1

\* the decimal value of a display string, times 100, rounded half-to-even
DisplayCents(str) ==
  LET v == Bare(Unsigned(str))
      comma == IndexOf(v, ",")
      decimals == IF comma = 0 THEN 0 ELSE Len(v) - comma
      n == DigitsToNat(DigitsOf(Remove(v, {","})))
  IN  HalfEven((IF str[1] = "-" THEN 0 - n ELSE n) * 100, Pow10(decimals))

\* C18: for every display string parseCurrency returns a whole number of
\* minor units, the decimal value times 100 rounded half-to-even, also when
\* the string has more than two decimals (1,005 gives 100, never 100.5).
C18_ParseReturnsRoundedInteger ==
  (Is("parseCurrency") /\ IsDisplayString(calc.a)) =>
    IsInteger(calc.out, DisplayCents(calc.a))

\* a malformed string: one with a character that is no digit, separator,
\* sign, currency symbol or whitespace; one that is empty or holds only
\* symbols and whitespace; one with more than one decimal comma
Malformed(str) ==
  \/ \E i \in 1..Len(str) :
       ~IsDigit(str[i]) /\ str[i] \notin {",", ".", "-", "+", "€", "$", "£", "¥", " "}
  \/ Remove(str, {"€", "$", "£", "¥", " "}) = <<>>
  \/ Len(Remove(str, {","})) < Len(str) - 1

\* C19: parseCurrency fails with a parse error, and returns nothing, on
\* every malformed string: one with non-numeric content, the empty string or
\* one of only symbols and whitespace, one with more than one decimal point.
C19_ParseFailsOnMalformed ==
  (Is("parseCurrency") /\ Malformed(calc.a)) => calc.out = DecimalError

\* C20: parseCurrency(formatCurrency(n)) = n for every whole number n of
\* minor units formatCurrency is applied to with its default currency and
\* locale, 0, 1, -100 and 999999999999 among them.
C20_ParseOfFormatIsIdentity ==
  Is("parseCurrency(formatCurrency)") => calc.out = calc.a

\* C20 witness: 999999999999 was formatted with its digits in groups, as
\* "9 999 999 999,99 €", and parsed back to 999999999999.
C20_Witness ==
  /\ Is("parseCurrency(formatCurrency)")
  /\ calc.a = Finite(FALSE, <<9, 9, 9, 9, 9, 9, 9, 9, 9, 9, 9, 9>>, <<>>)
  /\ calc.b = <<"9", " ", "9", "9", "9", " ", "9", "9", "9", " ", "9", "9", "9",
                ",", "9", "9", " ", "€">>
  /\ calc.out = calc.a

\* the two halves of a whole number, hi * 10^6 + lo, each with its sign
Halves(d) ==
  LET sgn == IF d.neg THEN 0 - 1 ELSE 1
      n == Len(d.int)
  IN  IF n <= 6 THEN [hi |-> 0, lo |-> sgn * DigitsToNat(d.int)]
      ELSE [hi |-> sgn * DigitsToNat(SubSeq(d.int, 1, n - 6)),
            lo |-> sgn * DigitsToNat(SubSeq(d.int, n - 5, n))]

\* out is the whole number hi * 10^6 + lo, whatever the signs of hi and lo
IsWhole(out, hi, lo) ==
  /\ out.kind = "finite"
  /\ out.frac = <<>>
  /\ (Halves(out).hi - hi) * Pow10(6) = lo - Halves(out).lo

\* C21: for all whole a and b of magnitude up to 10^12 (and a little more)
\* addCurrency(a, b) is a + b and subtractCurrency(a, b) is a - b exactly,
\* below zero too; subtractCurrency(addCurrency(a, b), b) is a, and
\* addCurrency(a, b) is addCurrency(b, a).
C21_AddSubtractExact ==
  /\ Is("addCurrency") =>
       /\ IsWhole(calc.out, Halves(calc.a).hi + Halves(calc.b).hi,
                  Halves(calc.a).lo + Halves(calc.b).lo)
       /\ calc.out = AddCurrency(calc.b, calc.a)
  /\ Is("subtractCurrency") =>
       IsWhole(calc.out, Halves(calc.a).hi - Halves(calc.b).hi,
               Halves(calc.a).lo - Halves(calc.b).lo)
  /\ Is("subtractCurrency(addCurrency)") => calc.out = calc.a

\* C21 witness: 1 was added to 999999999999 and then subtracted again: the
\* sum 1000000000000 came back as 999999999999.
C21_Witness ==
  /\ Is("subtractCurrency(addCurrency)")
  /\ calc.a = Whole(FALSE, 999999, 999999)
  /\ calc.b = Whole(FALSE, 0, 1)
  /\ calc.out = calc.a
  /\ AddCurrency(calc.a, calc.b) = Whole(FALSE, 1000000, 0)

----------------------------------------------------------------------------
(* Properties of the seed script (SpecSeed) *)

\* C22: when the seed script has run once, on a store whose currencies,
\* categories and settings tables were empty, there are exactly 20 categories
\* (15 of type Expense, 5 of type Income, none archived), exactly one
\* currency, with code EUR and exchangeRate 1.0, and exactly one settings row,
\* whose defaultCurrencyId is the id of that currency.
C22_SeedOnceOnEmptyStore ==
  (last.op = "seed" /\ seeding.pc = "idle" /\ seeding.runs = 1 /\ seeding.fresh) =>
    /\ last.status = "ok"
    /\ Cardinality(categories) = 20
    /\ Cardinality({c \in categories : c.type = "Expense"}) = 15
    /\ Cardinality({c \in categories : c.type = "Income"}) = 5
    /\ \A c \in categories : ~c.archived
    /\ Cardinality(currencies) = 1
    /\ \A c \in currencies : c.code = "EUR" /\ c.exchangeRate = Pow10(6)
    /\ Cardinality(settings) = 1
    /\ \A t \in settings : \E c \in currencies : t.defaultCurrencyId = c.id

\* C22 witness: the seed script has run once on an empty store and exited
\* after its last insert.
C22_Witness ==
  /\ last.op = "seed"
  /\ last.status = "ok"
  /\ seeding = [pc |-> "idle", next |-> 21, eur |-> 1, runs |-> 1, fresh |-> TRUE]
  /\ Cardinality(categories) = 20

\* C27: whenever the seed script has run to its end, be it on an empty
\* store, on a store seeded before or on one where settings.get has made the
\* settings row, there are exactly one EUR currency, 20 categories and one
\* settings row: a run on a store that holds them adds none.
C27_SeedIdempotent ==
  (last.op = "seed" /\ seeding.pc = "idle") =>
    /\ Cardinality(SelectEur(currencies)) = 1
    /\ Cardinality(categories) = 20
    /\ Cardinality(settings) = 1

----------------------------------------------------------------------------
(* Properties of the list procedures (SpecList) *)

ListOps == {"currencies.list", "accounts.list", "categories.list", "payees.list"}

\* the table a list call reads
ListedTable(op) ==
  CASE op = "currencies.list" -> currencies
    [] op = "accounts.list" -> accounts
    [] op = "categories.list" -> categories
    [] op = "payees.list" -> payees

\* the place of a row's name (a currency's code) in the collation
KeyRank(op, r) ==
  CHOOSE i \in 1..Len(Collation) :
    Collation[i] = IF op = "currencies.list" THEN r.code ELSE r.name

\* C23: a list call returns exactly the stored rows whose type is the type
\* asked for, if one is, and which are not archived unless includeArchived
\* is true, each once, in ascending order of name (of code for currencies);
\* and the same call made again on the same stored state returns the rows
\* in the same order.
C23_ListFiltersAndOrders ==
  /\ [](last.op \in ListOps =>
          LET rows == last.rows
              stored == {r \in ListedTable(last.op) :
                           /\ last.type = NoName \/ r.type = last.type
                           /\ last.includeArchived \/ ~r.archived}
          IN  /\ {rows[i] : i \in 1..Len(rows)} = stored
              /\ Len(rows) = Cardinality(stored)
              /\ \A i, j \in 1..Len(rows) :
                   i < j => KeyRank(last.op, rows[i]) <= KeyRank(last.op, rows[j]))
  /\ [][(/\ last.op \in ListOps
          /\ last'.op = last.op
          /\ last'.type = last.type
          /\ last'.includeArchived = last.includeArchived) =>
           last'.rows = last.rows]_vars

----------------------------------------------------------------------------
(* Properties of the life of a row (Spec) *)

\* what a step from table to table2 does to the rows: every row stays (and
\* getById finds it), a row's archived flag changes only by a successful
\* archive (to TRUE) or unarchive (to FALSE) of that row, and a new row is
\* not archived
RowsKept(table, table2, archiveOp, unarchiveOp) ==
  /\ \A r \in table :
       /\ GetByIdResult(table2, r.id).status = "ok"
       /\ \A t \in SelectById(table2, r.id) :
            t.archived # r.archived =>
              /\ last'.id = r.id
              /\ last'.status = "ok"
              /\ last'.op = IF t.archived THEN archiveOp ELSE unarchiveOp
  /\ \A t \in table2 : SelectById(table, t.id) = {} => ~t.archived

\* a getById call on the id of a row of the table succeeds
Found(op, table) ==
  (last' # last /\ last'.op = op /\ SelectById(table, last'.id) # {}) =>
    last'.status = "ok"

\* C24: no step removes a row of currencies, categories, accounts or
\* settings: every row a table holds it holds in every later state, and
\* getById on its id succeeds; a new row is not archived; the archived flag
\* of a row changes only from false to true by archive and from true to
\* false by unarchive.
C24_NoRowRemoved ==
  [][/\ RowsKept(currencies, currencies', "currencies.archive", "currencies.unarchive")
     /\ RowsKept(categories, categories', "categories.archive", "categories.unarchive")
     /\ RowsKept(accounts, accounts', "accounts.archive", "accounts.unarchive")
     /\ \A r \in settings : SelectById(settings', r.id) # {}
     /\ Found("currencies.getById", currencies)
     /\ Found("categories.getById", categories)
     /\ Found("accounts.getById", accounts)]_vars

\* C24 witness: getById found a currency that had been archived.
C24_Witness ==
  /\ last.op = "currencies.getById"
  /\ last.status = "ok"
  /\ \E c \in SelectById(currencies, last.id) : c.archived

----------------------------------------------------------------------------
(* Properties of accounts.create racing currencies.archive (SpecConc) *)

\* C25: however the statements of accounts.create(currencyId = c) and of
\* currencies.archive(c) interleave, every step that inserts an account row
\* finds the row's currency not archived: create fails, or its insert takes
\* effect while c is not archived.
C25_NoInsertOnArchivedCurrency ==
  [][\A a \in accounts' \ accounts :
       \E c \in SelectById(currencies, a.currencyId) : ~c.archived]_vars

----------------------------------------------------------------------------
(* Properties of the calls that fail (Spec) *)

\* the rows the id of an update, archive or unarchive call resolves to
RowsOfId(op, id) ==
  CASE op \in {"currencies.update", "currencies.updateExchangeRate",
               "currencies.archive", "currencies.unarchive"} -> SelectById(currencies, id)
    [] op \in {"accounts.update", "accounts.archive", "accounts.unarchive"} ->
         SelectById(accounts, id)
    [] op \in {"categories.update", "categories.archive", "categories.unarchive"} ->
         SelectById(categories, id)
    [] op \in {"payees.update", "payees.archive", "payees.unarchive"} ->
         SelectById(payees, id)
    [] OTHER -> {[id |-> id]}

----------------------------------------------------------------------------
(* Properties of settings.update (Spec) *)

\* C30: settings.update, called while no settings row exists and a
\* non-archived EUR currency does, with no defaultCurrencyId or with that of
\* a currency that is not archived, succeeds, and exactly one settings row
\* exists afterwards, with the defaultCurrencyId that was asked for.
C30_SettingsUpdateCreatesSingleton ==
  [][(/\ last'.op = "settings.update"
      /\ settings = {}
      /\ \E c \in SelectEur(currencies) : ~c.archived
      /\ SettingsUpdateCheck(currencies, last'.ref) = "ok") =>
       /\ last'.status = "ok"
       /\ Cardinality(settings') = 1
       /\ \A t \in settings' : last'.ref # Undef => t.defaultCurrencyId = last'.ref]_vars

----------------------------------------------------------------------------
(* Properties of the category tree (Spec) *)

\* the category reached from the category of this id by following
\* parentCategoryId k times, Null when the chain ends before
RECURSIVE Ancestor(_, _)
Ancestor(id, k) ==
  IF k = 0 \/ id = Null THEN id
  ELSE IF SelectById(categories, id) = {} THEN Null
  ELSE Ancestor((CHOOSE c \in SelectById(categories, id) : TRUE).parentCategoryId, k - 1)

\* C28: in every state reached through categories.create and
\* categories.update no category is its own ancestor: following
\* parentCategoryId from a category never leads back to it, in one step or
\* in more.
C28_NoParentCycle ==
  \A c \in categories :
    \A k \in 1..Cardinality(categories) : Ancestor(c.id, k) # c.id

----------------------------------------------------------------------------
(* Properties of the stored exchange rate (Spec) *)

\* C29: in every state every stored currency has an exchangeRate strictly
\* greater than zero: create, update and updateExchangeRate write no rate
\* that is zero or negative, and a rate they accept is still positive at the
\* six fractional digits of the column.
C29_StoredRatePositive == \A c \in currencies : c.exchangeRate > 0

====
